---- MODULE Spec2Model ----
(***************************************************************************)
(* A model of gpu-checkpoint: the detection result container               *)
(* (detector/types.rs), the strategy selector (checkpoint/mod.rs), the     *)
(* BAR-sliding checkpoint writer (checkpoint/bar_sliding.rs) and the       *)
(* restore reader (restore/bar_restore.rs).                                *)
(*                                                                         *)
(* Two specifications share the variables:                                 *)
(*   SpecDetect  builds a DetectionResult by add_allocation calls and      *)
(*               applies select_strategy to it;                            *)
(*   Spec        runs checkpoint_process on a DetectionResult and then     *)
(*               restore_from_checkpoint on the file it left on disk.      *)
(***************************************************************************)
EXTENDS Integers, Sequences, FiniteSets

\* ------------------------------------------------------------------ bounds

\* Addresses handed to GpuAllocation::new in SpecDetect are 0..MaxAddr.
MaxAddr == 1

\* At most this many add_allocation calls in SpecDetect.
MaxDetAllocs == 2

\* The detections that Spec checkpoints hold at most MaxAllocs allocations,
\* each of at most MaxSize bytes.
MaxAllocs == 2

MaxSize == 2

\* BAR_WINDOW_SIZE (256 MiB in the source), scaled to the model's sizes.
\* BarSlidingCheckpoint::new and BarRestore::new use it; with_window_size
\* sets any window of 0..BAR_WINDOW_SIZE.
BAR_WINDOW_SIZE == 2

\* ------------------------------------------------------------- integers

\* The model checker's integers have 32 bits, so the model narrows the
\* program's: a u64 keeps 30 bits (two of them add without leaving the
\* checker's range) and wraps modulo U64; a u32 keeps 31 bits.  A value
\* decoded from bytes that does not fit is the largest value of its type.
U64 == 2^30

U64_MAX == U64 - 1

U32_MAX == U64_MAX + U64

\* ------------------------------------------------- detector/types.rs

AllocationType ==
    {"Standard", "Uvm", "Managed", "Ipc", "Distributed", "BarMapped",
     "HostPinned", "Unknown"}

\* Option<T>: None is the empty sequence, Some(v) is <<v>>.
None == <<>>

Some(v) == <<v>>

unwrap_or(o, d) == IF o = None THEN d ELSE o[1]

\* u64 subtraction and addition as the release profile computes them.
wrapping_sub(a, b) == (a - b + U64) % U64

wrapping_add(a, b) == (a + b) % U64

\* GpuAllocation::new: size = end - start.
GpuAllocation_new(start, end, alloc_type) ==
    [vaddr_start |-> start,
     vaddr_end   |-> end,
     size        |-> wrapping_sub(end, start),
     alloc_type  |-> alloc_type,
     device_id   |-> None]

\* Whether `end - start` overflows u64 (a panic under overflow checks).
new_overflows(start, end) == end < start

is_problematic_no_distributed(a) ==
    a.alloc_type \in {"Uvm", "Managed", "Ipc"}

is_problematic(a) ==
    a.alloc_type \in {"Uvm", "Managed", "Ipc", "Distributed"}

DetectionStats_default ==
    [standard_allocations    |-> 0,
     uvm_allocations         |-> 0,
     managed_allocations     |-> 0,
     ipc_allocations         |-> 0,
     distributed_allocations |-> 0,
     total_size              |-> 0,
     largest_allocation      |-> 0]

DetectionResult_new(pid) ==
    [pid              |-> pid,
     allocations      |-> <<>>,
     total_gpu_memory |-> 0,
     stats            |-> DetectionStats_default]

\* The per-type counter that add_allocation increments for a type ("" for
\* the types of the `_ => {}` arm).
counter_of(alloc_type) ==
    CASE alloc_type = "Standard"    -> "standard_allocations"
      [] alloc_type = "Uvm"         -> "uvm_allocations"
      [] alloc_type = "Managed"     -> "managed_allocations"
      [] alloc_type = "Ipc"         -> "ipc_allocations"
      [] alloc_type = "Distributed" -> "distributed_allocations"
      [] OTHER                      -> ""

bump_counter(stats, alloc_type) ==
    IF counter_of(alloc_type) = ""
    THEN stats
    ELSE [stats EXCEPT ![counter_of(alloc_type)] = @ + 1]

\* Whether one of the two `+=` of add_allocation overflows u64.
add_overflows(r, a) ==
    \/ r.total_gpu_memory + a.size >= U64
    \/ r.stats.total_size + a.size >= U64

add_allocation_largest_is_latest(r, a) ==
    [r EXCEPT
        !.total_gpu_memory = wrapping_add(@, a.size),
        !.stats = bump_counter(
            [@ EXCEPT !.total_size = wrapping_add(@, a.size),
                      !.largest_allocation = a.size],
            a.alloc_type),
        !.allocations = Append(@, a)]

add_allocation_forgets_stats_total(r, a) ==
    [r EXCEPT
        !.total_gpu_memory = wrapping_add(@, a.size),
        !.stats = bump_counter(
            [@ EXCEPT !.largest_allocation =
                        IF a.size > @ THEN a.size ELSE @],
            a.alloc_type),
        !.allocations = Append(@, a)]

add_allocation(r, a) ==
    [r EXCEPT
        !.total_gpu_memory = wrapping_add(@, a.size),
        !.stats = bump_counter(
            [@ EXCEPT !.total_size = wrapping_add(@, a.size),
                      !.largest_allocation =
                        IF a.size > @ THEN a.size ELSE @],
            a.alloc_type),
        !.allocations = Append(@, a)]

has_problematic_allocations(r) ==
    \E i \in 1..Len(r.allocations) : is_problematic(r.allocations[i])

\* ------------------------------------------------- checkpoint/mod.rs

CheckpointStrategy == {"CudaCheckpoint", "BarSliding", "Hybrid", "SkipGpu"}

select_strategy(d) ==
    IF d.allocations = <<>> THEN "SkipGpu"
    ELSE IF has_problematic_allocations(d) THEN "BarSliding"
    ELSE "CudaCheckpoint"

\* ------------------------------------------ checkpoint/bar_sliding.rs

CHECKPOINT_MAGIC == 1196447043

CHECKPOINT_VERSION == 1

Min(a, b) == IF a < b THEN a ELSE b

\* v.to_le_bytes() of an n-byte unsigned integer.
RECURSIVE to_le_bytes(_, _)
to_le_bytes(v, n) ==
    IF n = 0 THEN <<>> ELSE <<v % 256>> \o to_le_bytes(v \div 256, n - 1)

\* uN::from_le_bytes(buf), max being the largest value of uN.
RECURSIVE from_le_bytes(_, _)
from_le_bytes(buf, max) ==
    IF buf = <<>> THEN 0
    ELSE LET high == from_le_bytes(Tail(buf), max) IN
         IF high > max \div 256 THEN max ELSE buf[1] + 256 * high

u32_from_le_bytes(buf) == from_le_bytes(buf, U32_MAX)

u64_from_le_bytes(buf) == from_le_bytes(buf, U64_MAX)

write_header_timestamp_first(h) ==
    to_le_bytes(h.magic, 4) \o to_le_bytes(h.version, 4)
    \o to_le_bytes(h.pid, 4) \o to_le_bytes(h.num_allocations, 4)
    \o to_le_bytes(h.timestamp, 8) \o to_le_bytes(h.total_size, 8)

write_header(h) ==
    to_le_bytes(h.magic, 4) \o to_le_bytes(h.version, 4)
    \o to_le_bytes(h.pid, 4) \o to_le_bytes(h.num_allocations, 4)
    \o to_le_bytes(h.total_size, 8) \o to_le_bytes(h.timestamp, 8)

write_allocation_header(h) ==
    to_le_bytes(h.vaddr_start, 8) \o to_le_bytes(h.vaddr_end, 8)
    \o to_le_bytes(h.size, 8) \o to_le_bytes(h.device_id, 4)
    \o to_le_bytes(h.flags, 4)

\* The header checkpoint_process builds (lines 78-88).
CheckpointHeader(pid, d, now) ==
    [magic           |-> CHECKPOINT_MAGIC,
     version         |-> CHECKPOINT_VERSION,
     pid             |-> pid,
     num_allocations |-> Len(d.allocations),
     total_size      |-> d.total_gpu_memory,
     timestamp       |-> now]

AllocationHeader_size_is_end(a) ==
    [vaddr_start |-> a.vaddr_start,
     vaddr_end   |-> a.vaddr_end,
     size        |-> a.vaddr_end,
     device_id   |-> unwrap_or(a.device_id, 0),
     flags       |-> 0]

\* The header checkpoint_allocation builds (lines 150-156).
AllocationHeader(a) ==
    [vaddr_start |-> a.vaddr_start,
     vaddr_end   |-> a.vaddr_end,
     size        |-> a.size,
     device_id   |-> unwrap_or(a.device_id, 0),
     flags       |-> 0]

\* The byte the checkpointed process holds at an address (its memory is
\* frozen while /proc/<pid>/mem is read); never 0, unlike the zero fill.
src_byte(addr) == 1 + ((addr * 37) % 255)

mem_bytes_highest_first(addr, n) == [i \in 1..n |-> src_byte(addr + n - i)]

mem_bytes(addr, n) == [i \in 1..n |-> src_byte(addr + i - 1)]

zeros(n) == [i \in 1..n |-> 0]

\* ------------------------------------------------------------------ state

VARIABLES
    overflow_checks,  \* the build profile: TRUE panics on integer overflow
    detection,        \* the DetectionResult
    panicked,         \* a panic has unwound the caller
    strategy,         \* what select_strategy returned, None before the call
    pc,               \* where checkpoint_process / restore_from_checkpoint is
    window_size,      \* BarSlidingCheckpoint.window_size
    file_exists,      \* the checkpoint file is on disk
    file,             \* its bytes
    ck,               \* the locals of checkpoint_process and its callees
    ck_entries,       \* history: where each allocation entry went in the file
    ck_result,        \* what checkpoint_process returned, None before that
    input,            \* the bytes of the file restore_from_checkpoint reads
    dst_mem,          \* /proc/<target>/mem during the restore
    rs,               \* the locals of restore_from_checkpoint and its callees
    rs_entries,       \* history: where each allocation header was read
    target_writes,    \* history: the <<address, byte>> written to the target
    rs_result,        \* what restore_from_checkpoint returned, None before
    scan,             \* the process NvidiaDetector looks at, and its locals
    composite,        \* the detectors and the locals of detect_all
    codec,            \* a header, the bytes written for it and the header read
    engine            \* where CheckpointEngine::checkpoint is, and its result

detect_vars == <<overflow_checks, detection, panicked, strategy>>

ck_vars == <<window_size, file_exists, file, ck, ck_entries, ck_result>>

rs_vars == <<input, dst_mem, rs, rs_entries, target_writes, rs_result>>

scan_vars == <<scan, composite, codec, engine>>

vars == <<detect_vars, pc, ck_vars, rs_vars, scan_vars>>

Pids == {1234}

Timestamps == {1000000000}

TargetPids == {None, Some(5678)}

ck_init ==
    [idx |-> 0, remaining |-> 0, mem_pos |-> 0, total_written |-> 0, progress |-> 0]

rs_init ==
    [pid |-> 0, num_allocations |-> 0, idx |-> 0, pos |-> 0,
     vaddr_start |-> 0, size |-> 0, remaining |-> 0, mem_pos |-> 0,
     total_restored |-> 0, progress |-> 0, consumed |-> 0]

IdleCheckpoint ==
    /\ window_size = BAR_WINDOW_SIZE
    /\ file_exists = FALSE
    /\ file = <<>>
    /\ ck = ck_init
    /\ ck_entries = <<>>
    /\ ck_result = None

IdleScan ==
    /\ scan = <<>>
    /\ composite = <<>>
    /\ codec = <<>>
    /\ engine = <<>>

IdleRestore ==
    /\ input = <<>>
    /\ dst_mem = "absent"
    /\ rs = rs_init
    /\ rs_entries = <<>>
    /\ target_writes = <<>>
    /\ rs_result = None

\* ------------------------------------------------------------ SpecDetect

InitDetect ==
    /\ overflow_checks \in BOOLEAN
    /\ detection \in {DetectionResult_new(pid) : pid \in Pids}
    /\ panicked = FALSE
    /\ strategy = None
    /\ pc = "idle"
    /\ IdleCheckpoint
    /\ IdleRestore
    /\ IdleScan

\* detection.add_allocation(GpuAllocation::new(start, end, t))
AddAllocation ==
    /\ ~panicked
    /\ strategy = None
    /\ Len(detection.allocations) < MaxDetAllocs
    /\ \E start \in 0..MaxAddr, end \in 0..MaxAddr, t \in AllocationType :
        LET a == GpuAllocation_new(start, end, t) IN
        IF overflow_checks /\ (new_overflows(start, end) \/ add_overflows(detection, a))
        THEN /\ panicked' = TRUE
             /\ UNCHANGED <<overflow_checks, detection, strategy>>
        ELSE /\ detection' = add_allocation(detection, a)
             /\ UNCHANGED <<overflow_checks, panicked, strategy>>
    /\ UNCHANGED <<pc, ck_vars, rs_vars, scan_vars>>

\* CheckpointEngine::select_strategy(&detection)
SelectStrategy ==
    /\ ~panicked
    /\ strategy = None
    /\ strategy' = Some(select_strategy(detection))
    /\ UNCHANGED <<overflow_checks, detection, panicked>>
    /\ UNCHANGED <<pc, ck_vars, rs_vars, scan_vars>>

NextDetect ==
    \/ AddAllocation
    \/ SelectStrategy

SpecDetect == InitDetect /\ [][NextDetect]_vars

\* ------------------------------------------------------------------ Spec

\* The allocations of the detections that Spec checkpoints: the i-th region
\* found starts at its own address, so that no two regions share a byte.
PipelineAllocations(i) ==
    {GpuAllocation_new(16 * i, 16 * i + n, "Uvm") : n \in 0..MaxSize}

RECURSIVE AllocSeqs(_)
AllocSeqs(n) ==
    IF n = 0 THEN {<<>>}
    ELSE LET shorter == AllocSeqs(n - 1) IN
         shorter \cup {Append(q, a) : q \in {x \in shorter : Len(x) = n - 1},
                                      a \in PipelineAllocations(n)}

\* DetectionResult::new followed by one add_allocation per element.
RECURSIVE Detect(_, _)
Detect(pid, allocs) ==
    IF allocs = <<>> THEN DetectionResult_new(pid)
    ELSE add_allocation(Detect(pid, SubSeq(allocs, 1, Len(allocs) - 1)),
                        allocs[Len(allocs)])

\* Within the bounds of Spec no sum reaches U64, so the two build profiles
\* agree there.
Init ==
    /\ overflow_checks = FALSE
    /\ detection \in {Detect(pid, q) : pid \in Pids, q \in AllocSeqs(MaxAllocs)}
    /\ panicked = FALSE
    /\ strategy = None
    /\ pc = "start"
    /\ window_size \in 0..BAR_WINDOW_SIZE
    /\ file_exists = FALSE
    /\ file = <<>>
    /\ ck = ck_init
    /\ ck_entries = <<>>
    /\ ck_result = None
    /\ IdleRestore
    /\ IdleScan

Ok(v) == <<[ok |-> TRUE, value |-> v]>>

Err(e) == <<[ok |-> FALSE, error |-> e]>>

\* ---- checkpoint_process

\* checkpoint_process, lines 66-104: create or truncate the output file and
\* write the file header.
CheckpointStart ==
    /\ pc = "start"
    /\ \E now \in Timestamps :
        file' = write_header(CheckpointHeader(detection.pid, detection, now))
    /\ file_exists' = TRUE
    /\ ck' = ck_init
    /\ pc' = "ck_loop"
    /\ UNCHANGED <<scan_vars, detect_vars, window_size, ck_entries, ck_result, rs_vars>>

\* checkpoint_process, lines 70-75: the output file cannot be created.
CheckpointCreateFails ==
    /\ pc = "start"
    /\ ck_result' = Err("IoError")
    /\ pc' = "ck_done"
    /\ UNCHANGED <<scan_vars, detect_vars, window_size, file_exists, file, ck, ck_entries, rs_vars>>

\* What /proc/<pid>/mem is when checkpoint_allocation looks at it: absent
\* (exists() is false), denied (open fails with PermissionDenied),
\* unreadable (open fails otherwise) or readable.
SrcMemStates == {"absent", "denied", "unreadable", "readable"}

after_header_denied_is_io_error(mem) ==
    CASE mem = "absent"     -> [pc |-> "ck_zero", error |-> None]
      [] mem = "denied"     -> [pc |-> "ck_done", error |-> Some("IoError")]
      [] mem = "unreadable" -> [pc |-> "ck_done", error |-> Some("IoError")]
      [] mem = "readable"   -> [pc |-> "ck_copy", error |-> None]

\* The outcome of checkpoint_allocation's look at /proc/<pid>/mem, lines
\* 169-181 and 194-203: where it goes next and the error it returns.
after_header(mem) ==
    CASE mem = "absent"     -> [pc |-> "ck_zero", error |-> None]
      [] mem = "denied"     -> [pc |-> "ck_done", error |-> Some("PermissionDenied")]
      [] mem = "unreadable" -> [pc |-> "ck_done", error |-> Some("IoError")]
      [] mem = "readable"   -> [pc |-> "ck_copy", error |-> None]

\* One pass of the for loop of checkpoint_process up to the copy loop:
\* checkpoint_allocation writes the allocation header (lines 150-158), then
\* enters copy_memory_sliding (lines 194-208) or write_zeros (236-237).
CheckpointAllocation ==
    /\ pc = "ck_loop"
    /\ ck.idx < Len(detection.allocations)
    /\ \E mem \in SrcMemStates :
        LET a == detection.allocations[ck.idx + 1]
            next == after_header(mem)
        IN
        /\ file' = file \o write_allocation_header(AllocationHeader(a))
        /\ ck_entries' = Append(ck_entries,
                                [at |-> Len(file), payload |-> 0, mem |-> mem])
        /\ pc' = next.pc
        /\ IF next.error = None
           THEN /\ ck' = [ck EXCEPT !.remaining = a.size, !.mem_pos = a.vaddr_start]
                /\ UNCHANGED ck_result
           ELSE /\ ck_result' = Err(next.error[1])
                /\ UNCHANGED ck
    /\ UNCHANGED <<scan_vars, detect_vars, window_size, file_exists, rs_vars>>

\* checkpoint_allocation returns Ok(allocation.size) (line 183) and
\* checkpoint_process adds it to total_written (line 118).
allocation_done(c) ==
    [c EXCEPT !.total_written = wrapping_add(@, detection.allocations[c.idx + 1].size),
              !.idx = @ + 1,
              !.remaining = 0,
              !.mem_pos = 0]

add_payload(entries, n) ==
    [entries EXCEPT ![Len(entries)].payload = @ + n]

\* copy_memory_sliding, lines 210-225: one window, the read returning n > 0.
CopyWindow ==
    /\ pc = "ck_copy"
    /\ ck.remaining > 0
    /\ LET to_read == Min(ck.remaining, window_size) IN
        \E bytes_read \in 1..to_read :
            /\ file' = file \o mem_bytes(ck.mem_pos, bytes_read)
            /\ ck' = [ck EXCEPT !.remaining = @ - bytes_read,
                                !.mem_pos = @ + bytes_read,
                                !.progress = @ + bytes_read]
            /\ ck_entries' = add_payload(ck_entries, bytes_read)
    /\ UNCHANGED <<scan_vars, detect_vars, pc, window_size, file_exists, ck_result, rs_vars>>

\* copy_memory_sliding, lines 212-216: the read returns 0 and the loop breaks.
CopyBreak ==
    /\ pc = "ck_copy"
    /\ ck.remaining > 0
    /\ ck' = allocation_done(ck)
    /\ pc' = "ck_loop"
    /\ UNCHANGED <<scan_vars, detect_vars, window_size, file_exists, file, ck_entries, ck_result, rs_vars>>

\* copy_memory_sliding, line 212: the read fails.
CopyReadFails ==
    /\ pc = "ck_copy"
    /\ ck.remaining > 0
    /\ window_size > 0
    /\ ck_result' = Err("IoError")
    /\ pc' = "ck_done"
    /\ UNCHANGED <<scan_vars, detect_vars, window_size, file_exists, file, ck, ck_entries, rs_vars>>

\* copy_memory_sliding, lines 210 and 227: remaining is 0, the loop ends.
CopyExit ==
    /\ pc = "ck_copy"
    /\ ck.remaining = 0
    /\ ck' = allocation_done(ck)
    /\ pc' = "ck_loop"
    /\ UNCHANGED <<scan_vars, detect_vars, window_size, file_exists, file, ck_entries, ck_result, rs_vars>>

\* write_zeros, lines 239-248: one window of zero bytes.
ZeroWindow ==
    /\ pc = "ck_zero"
    /\ ck.remaining > 0
    /\ LET to_write == Min(ck.remaining, window_size) IN
        /\ file' = file \o zeros(to_write)
        /\ ck' = [ck EXCEPT !.remaining = @ - to_write,
                            !.progress = @ + to_write]
        /\ ck_entries' = add_payload(ck_entries, to_write)
    /\ UNCHANGED <<scan_vars, detect_vars, pc, window_size, file_exists, ck_result, rs_vars>>

\* write_zeros, lines 239 and 250: remaining is 0, the loop ends.
ZeroExit ==
    /\ pc = "ck_zero"
    /\ ck.remaining = 0
    /\ ck' = allocation_done(ck)
    /\ pc' = "ck_loop"
    /\ UNCHANGED <<scan_vars, detect_vars, window_size, file_exists, file, ck_entries, ck_result, rs_vars>>

\* checkpoint_process, lines 121-139: the loop is over.
CheckpointFinish ==
    /\ pc = "ck_loop"
    /\ ck.idx = Len(detection.allocations)
    /\ ck_result' = Ok([pid             |-> detection.pid,
                        size_bytes      |-> ck.total_written,
                        num_allocations |-> Len(detection.allocations)])
    /\ pc' = "ck_done"
    /\ UNCHANGED <<scan_vars, detect_vars, window_size, file_exists, file, ck, ck_entries, rs_vars>>

\* ---- restore/bar_restore.rs

\* read_header on the first 32 bytes of the file.
read_header(buf) ==
    [magic           |-> u32_from_le_bytes(SubSeq(buf, 1, 4)),
     version         |-> u32_from_le_bytes(SubSeq(buf, 5, 8)),
     pid             |-> u32_from_le_bytes(SubSeq(buf, 9, 12)),
     num_allocations |-> u32_from_le_bytes(SubSeq(buf, 13, 16)),
     total_size      |-> u64_from_le_bytes(SubSeq(buf, 17, 24)),
     timestamp       |-> u64_from_le_bytes(SubSeq(buf, 25, 32))]

\* read_allocation_header on the 32 bytes at the file position.
read_allocation_header(buf) ==
    [vaddr_start |-> u64_from_le_bytes(SubSeq(buf, 1, 8)),
     vaddr_end   |-> u64_from_le_bytes(SubSeq(buf, 9, 16)),
     size        |-> u64_from_le_bytes(SubSeq(buf, 17, 24)),
     device_id   |-> u32_from_le_bytes(SubSeq(buf, 25, 28)),
     flags       |-> u32_from_le_bytes(SubSeq(buf, 29, 32))]

validate_header_ignores_version(h) ==
    IF h.magic # CHECKPOINT_MAGIC THEN Err("RestoreError") ELSE Ok(<<>>)

validate_header(h) ==
    IF h.magic # CHECKPOINT_MAGIC THEN Err("RestoreError")
    ELSE IF h.version # CHECKPOINT_VERSION THEN Err("RestoreError")
    ELSE Ok(<<>>)

\* The files restore_from_checkpoint may find at checkpoint_path: the file
\* the checkpoint left there, or one that differs from it in the magic
\* or the version of its header.
Magics == {CHECKPOINT_MAGIC, 0}

Versions == {CHECKPOINT_VERSION, 2}

InputFiles ==
    {to_le_bytes(m, 4) \o to_le_bytes(v, 4) \o SubSeq(file, 9, Len(file)) :
        m \in Magics, v \in Versions}

\* What /proc/<target>/mem is during the restore: absent (exists() is
\* false), denied (the open for writing fails) or writable.
DstMemStates == {"absent", "denied", "writable"}

\* restore_from_checkpoint, lines 47-53: the file cannot be opened.
RestoreOpenFails ==
    /\ pc = "ck_done"
    /\ ~file_exists
    /\ rs_result' = Err("IoError")
    /\ pc' = "rs_done"
    /\ UNCHANGED <<scan_vars, detect_vars, ck_vars, input, dst_mem, rs, rs_entries, target_writes>>

\* restore_from_checkpoint, lines 47-54: the header is read and rejected.
RestoreRejects ==
    /\ pc = "ck_done"
    /\ file_exists
    /\ \E f \in InputFiles, mem \in DstMemStates :
        /\ Len(f) >= 32
        /\ validate_header(read_header(f)) # Ok(<<>>)
        /\ input' = f
        /\ dst_mem' = mem
        /\ rs' = [rs_init EXCEPT !.pos = 32]
        /\ rs_result' = validate_header(read_header(f))
    /\ pc' = "rs_done"
    /\ UNCHANGED <<scan_vars, detect_vars, ck_vars, rs_entries, target_writes>>

\* restore_from_checkpoint, lines 47-76: the header is read and accepted.
RestoreStart ==
    /\ pc = "ck_done"
    /\ file_exists
    /\ \E f \in InputFiles, mem \in DstMemStates, target_pid \in TargetPids :
        LET header == read_header(f) IN
        /\ Len(f) >= 32
        /\ validate_header(header) = Ok(<<>>)
        /\ input' = f
        /\ dst_mem' = mem
        /\ rs' = [rs_init EXCEPT !.pid = unwrap_or(target_pid, header.pid),
                                 !.num_allocations = header.num_allocations,
                                 !.pos = 32]
    /\ pc' = "rs_loop"
    /\ UNCHANGED <<scan_vars, detect_vars, ck_vars, rs_entries, target_writes, rs_result>>

\* restore_from_checkpoint, line 87: read_allocation_header meets the end
\* of the file (read_exact fails with UnexpectedEof).
RestoreHeaderEof ==
    /\ pc = "rs_loop"
    /\ rs.idx < rs.num_allocations
    /\ Len(input) - rs.pos < 32
    /\ rs' = [rs EXCEPT !.pos = Len(input)]
    /\ rs_result' = Err("IoError")
    /\ pc' = "rs_done"
    /\ UNCHANGED <<scan_vars, detect_vars, ck_vars, input, dst_mem, rs_entries, target_writes>>

\* One pass of the for loop of restore_from_checkpoint up to the loop that
\* consumes the payload: read_allocation_header (line 87), then
\* restore_allocation enters restore_memory_sliding (lines 171-185) or,
\* when /proc/<target>/mem is absent or cannot be opened,
\* skip_allocation_data (lines 213-214).
RestoreAllocation ==
    /\ pc = "rs_loop"
    /\ rs.idx < rs.num_allocations
    /\ Len(input) - rs.pos >= 32
    /\ LET h == read_allocation_header(SubSeq(input, rs.pos + 1, rs.pos + 32)) IN
        /\ rs_entries' = Append(rs_entries, [at |-> rs.pos, header |-> h])
        /\ rs' = [rs EXCEPT !.pos = @ + 32,
                            !.vaddr_start = h.vaddr_start,
                            !.size = h.size,
                            !.remaining = h.size,
                            !.mem_pos = h.vaddr_start]
        /\ pc' = IF dst_mem = "writable" THEN "rs_write" ELSE "rs_skip"
    /\ UNCHANGED <<scan_vars, detect_vars, ck_vars, input, dst_mem, target_writes, rs_result>>

\* restore_allocation returns Ok(alloc_header.size) (lines 147, 152, 159) and
\* restore_from_checkpoint adds it to total_restored (line 95).
entry_done(r) ==
    [r EXCEPT !.total_restored = wrapping_add(@, r.size),
              !.idx = @ + 1,
              !.remaining = 0]

\* The bytes left in the file at the read position.
avail == Len(input) - rs.pos

mem_writes_highest_first(n) ==
    [i \in 1..n |-> <<rs.mem_pos + n - i, input[rs.pos + i]>>]

\* The writes of write_all(&buffer[..n]) at the target's file position.
mem_writes(n) == [i \in 1..n |-> <<rs.mem_pos + i - 1, input[rs.pos + i]>>]

RestoreWindow_ignores_remaining ==
    /\ pc = "rs_write"
    /\ rs.remaining > 0
    /\ \E bytes_read \in 1..Min(BAR_WINDOW_SIZE, avail) :
        /\ target_writes' = target_writes \o mem_writes(bytes_read)
        /\ rs' = [rs EXCEPT !.pos = @ + bytes_read,
                            !.mem_pos = @ + bytes_read,
                            !.remaining = IF @ > bytes_read
                                          THEN @ - bytes_read ELSE 0,
                            !.progress = @ + bytes_read,
                            !.consumed = @ + bytes_read]
    /\ UNCHANGED <<scan_vars, detect_vars, ck_vars, pc, input, dst_mem, rs_entries, rs_result>>

\* restore_memory_sliding, lines 187-202: one window, read and written.
RestoreWindow ==
    /\ pc = "rs_write"
    /\ rs.remaining > 0
    /\ \E bytes_read \in 1..Min(Min(rs.remaining, BAR_WINDOW_SIZE), avail) :
        /\ target_writes' = target_writes \o mem_writes(bytes_read)
        /\ rs' = [rs EXCEPT !.pos = @ + bytes_read,
                            !.mem_pos = @ + bytes_read,
                            !.remaining = @ - bytes_read,
                            !.progress = @ + bytes_read,
                            !.consumed = @ + bytes_read]
    /\ UNCHANGED <<scan_vars, detect_vars, ck_vars, pc, input, dst_mem, rs_entries, rs_result>>

\* restore_memory_sliding, line 195: write_all fails after `written` bytes;
\* restore_allocation falls back to skip_allocation_data(alloc_header.size)
\* (lines 148-152).
RestoreWriteFails ==
    /\ pc = "rs_write"
    /\ rs.remaining > 0
    /\ \E bytes_read \in 1..Min(Min(rs.remaining, BAR_WINDOW_SIZE), avail) :
        \E written \in 0..(bytes_read - 1) :
            /\ target_writes' = target_writes \o mem_writes(written)
            /\ rs' = [rs EXCEPT !.pos = @ + bytes_read,
                                !.consumed = @ + bytes_read,
                                !.remaining = rs.size]
    /\ pc' = "rs_skip"
    /\ UNCHANGED <<scan_vars, detect_vars, ck_vars, input, dst_mem, rs_entries, rs_result>>

\* restore_memory_sliding, lines 189-193: the read returns 0 at the end of
\* the file and the loop breaks.
RestoreBreak ==
    /\ pc = "rs_write"
    /\ rs.remaining > 0
    /\ avail = 0
    /\ rs' = entry_done(rs)
    /\ pc' = "rs_loop"
    /\ UNCHANGED <<scan_vars, detect_vars, ck_vars, input, dst_mem, rs_entries, target_writes, rs_result>>

\* restore_memory_sliding, lines 187 and 204: remaining is 0.
RestoreExit ==
    /\ pc = "rs_write"
    /\ rs.remaining = 0
    /\ rs' = entry_done(rs)
    /\ pc' = "rs_loop"
    /\ UNCHANGED <<scan_vars, detect_vars, ck_vars, input, dst_mem, rs_entries, target_writes, rs_result>>

\* skip_allocation_data, lines 216-229: one window read and dropped.
SkipWindow ==
    /\ pc = "rs_skip"
    /\ rs.remaining > 0
    /\ \E bytes_read \in 1..Min(Min(rs.remaining, BAR_WINDOW_SIZE), avail) :
        rs' = [rs EXCEPT !.pos = @ + bytes_read,
                         !.remaining = @ - bytes_read,
                         !.progress = @ + bytes_read,
                         !.consumed = @ + bytes_read]
    /\ UNCHANGED <<scan_vars, detect_vars, ck_vars, pc, input, dst_mem, rs_entries, target_writes, rs_result>>

SkipBreak_is_an_error ==
    /\ pc = "rs_skip"
    /\ rs.remaining > 0
    /\ avail = 0
    /\ rs_result' = Err("IoError")
    /\ pc' = "rs_done"
    /\ UNCHANGED <<scan_vars, detect_vars, ck_vars, input, dst_mem, rs, rs_entries, target_writes>>

\* skip_allocation_data, lines 218-222: the read returns 0 at the end of the
\* file and the loop breaks.
SkipBreak ==
    /\ pc = "rs_skip"
    /\ rs.remaining > 0
    /\ avail = 0
    /\ rs' = entry_done(rs)
    /\ pc' = "rs_loop"
    /\ UNCHANGED <<scan_vars, detect_vars, ck_vars, input, dst_mem, rs_entries, target_writes, rs_result>>

\* skip_allocation_data, lines 216 and 231: remaining is 0.
SkipExit ==
    /\ pc = "rs_skip"
    /\ rs.remaining = 0
    /\ rs' = entry_done(rs)
    /\ pc' = "rs_loop"
    /\ UNCHANGED <<scan_vars, detect_vars, ck_vars, input, dst_mem, rs_entries, target_writes, rs_result>>

\* restore_from_checkpoint, lines 98-115: the loop is over.
RestoreFinish ==
    /\ pc = "rs_loop"
    /\ rs.idx = rs.num_allocations
    /\ rs_result' = Ok([pid             |-> rs.pid,
                        num_allocations |-> rs.num_allocations,
                        total_size      |-> rs.total_restored])
    /\ pc' = "rs_done"
    /\ UNCHANGED <<scan_vars, detect_vars, ck_vars, input, dst_mem, rs, rs_entries, target_writes>>

Next ==
    \/ CheckpointStart
    \/ CheckpointCreateFails
    \/ CheckpointAllocation
    \/ CopyWindow
    \/ CopyBreak
    \/ CopyReadFails
    \/ CopyExit
    \/ ZeroWindow
    \/ ZeroExit
    \/ CheckpointFinish
    \/ RestoreOpenFails
    \/ RestoreRejects
    \/ RestoreStart
    \/ RestoreHeaderEof
    \/ RestoreAllocation
    \/ RestoreWindow
    \/ RestoreWriteFails
    \/ RestoreBreak
    \/ RestoreExit
    \/ SkipWindow
    \/ SkipBreak
    \/ SkipExit
    \/ RestoreFinish

Spec == Init /\ [][Next]_vars

\* checkpoint_process and restore_from_checkpoint run on one thread that
\* always executes its next step: a step that changes the state is taken
\* whenever one is possible.
SpecFair == Spec /\ WF_vars(Next)

\* ------------------------------------------------- SpecComposite

\* CompositeDetector holds at most MaxDetectors detectors.
MaxDetectors == 3

\* What a detector's detect_allocations(pid) may return.
DetectorOutcomes ==
    {Ok(DetectionResult_new(pid)) : pid \in Pids}
    \cup {Ok(Detect(pid, <<GpuAllocation_new(16, 18, "Uvm")>>)) : pid \in Pids}
    \cup {Err("ProcessNotFound"), Err("PermissionDenied"), Err("IoError")}

RECURSIVE OutcomeSeqs(_)
OutcomeSeqs(n) ==
    IF n = 0 THEN {<<>>}
    ELSE LET shorter == OutcomeSeqs(n - 1) IN
         shorter \cup {Append(q, o) : q \in {x \in shorter : Len(x) = n - 1},
                                      o \in DetectorOutcomes}

composite_init(outcomes) ==
    [outcomes |-> outcomes, idx |-> 0, results |-> <<>>, returned |-> None]

InitComposite ==
    /\ overflow_checks = FALSE
    /\ detection \in {DetectionResult_new(pid) : pid \in Pids}
    /\ panicked = FALSE
    /\ strategy = None
    /\ pc = "idle"
    /\ IdleCheckpoint
    /\ IdleRestore
    /\ scan = <<>>
    /\ codec = <<>>
    /\ engine = <<>>
    /\ composite \in {composite_init(q) : q \in OutcomeSeqs(MaxDetectors)}

match_result_drops_earlier(results, outcome) ==
    IF outcome[1].ok THEN Append(results, outcome[1].value) ELSE <<>>

\* detect_all, lines 49-68: the match on what the detector returned.
match_result(results, outcome) ==
    IF outcome[1].ok THEN Append(results, outcome[1].value) ELSE results

\* detect_all, lines 48-69: one pass of the loop over the detectors.
DetectAllNext ==
    /\ composite # <<>>
    /\ composite.returned = None
    /\ composite.idx < Len(composite.outcomes)
    /\ composite' =
        [composite EXCEPT
            !.idx = @ + 1,
            !.results = match_result(@, composite.outcomes[composite.idx + 1])]
    /\ UNCHANGED <<detect_vars, pc, ck_vars, rs_vars, scan, codec, engine>>

\* detect_all, line 71: Ok(results).
DetectAllReturn ==
    /\ composite # <<>>
    /\ composite.returned = None
    /\ composite.idx = Len(composite.outcomes)
    /\ composite' = [composite EXCEPT !.returned = Ok(composite.results)]
    /\ UNCHANGED <<detect_vars, pc, ck_vars, rs_vars, scan, codec, engine>>

NextComposite ==
    \/ DetectAllNext
    \/ DetectAllReturn

SpecComposite == InitComposite /\ [][NextComposite]_vars


\* ------------------------------------------------------------- strings

\* A string is the sequence of its characters.
starts_with(s, prefix) ==
    /\ Len(s) >= Len(prefix)
    /\ SubSeq(s, 1, Len(prefix)) = prefix

\* The positions at which pat occurs in s.
find(s, pat) ==
    {i \in 1..(Len(s) - Len(pat) + 1) : SubSeq(s, i, i + Len(pat) - 1) = pat}

contains(s, pat) == find(s, pat) # {}

Digits == {"0", "1", "2", "3", "4", "5", "6", "7", "8", "9"}

digit_value(c) ==
    CASE c = "0" -> 0 [] c = "1" -> 1 [] c = "2" -> 2 [] c = "3" -> 3
      [] c = "4" -> 4 [] c = "5" -> 5 [] c = "6" -> 6 [] c = "7" -> 7
      [] c = "8" -> 8 [] c = "9" -> 9

\* str::parse::<u32> on a non-empty string of digits: None when the number
\* does not fit.
RECURSIVE parse_u32_from(_, _)
parse_u32_from(acc, digits) ==
    IF digits = <<>> THEN Some(acc)
    ELSE LET d == digit_value(digits[1]) IN
         IF acc > (U32_MAX - d) \div 10 THEN None
         ELSE parse_u32_from(10 * acc + d, Tail(digits))

parse_u32(digits) == parse_u32_from(0, digits)

\* The string literals of the detector.
str_dev_nvidia ==
    <<"/", "d", "e", "v", "/", "n", "v", "i", "d", "i", "a">>

str_nvidia_uvm ==
    <<"n", "v", "i", "d", "i", "a", "-", "u", "v", "m">>

str_nvidiactl ==
    <<"n", "v", "i", "d", "i", "a", "c", "t", "l">>

str_dev_dri ==
    <<"/", "d", "e", "v", "/", "d", "r", "i", "/">>

str_dev_kfd ==
    <<"/", "d", "e", "v", "/", "k", "f", "d">>

str_dev_shm ==
    <<"/", "d", "e", "v", "/", "s", "h", "m", "/">>

str_cuda ==
    <<"c", "u", "d", "a">>

str_nccl ==
    <<"n", "c", "c", "l">>

str_horovod ==
    <<"h", "o", "r", "o", "v", "o", "d">>

str_dev_nvidia_uvm ==
    <<"/", "d", "e", "v", "/", "n", "v", "i", "d", "i", "a", "-", "u", "v",
      "m">>

str_anon ==
    <<"[", "a", "n", "o", "n", ":">>

str_heap ==
    <<"[", "h", "e", "a", "p", "]">>

str_pci_devices ==
    <<"/", "s", "y", "s", "/", "b", "u", "s", "/", "p", "c", "i", "/", "d",
      "e", "v", "i", "c", "e", "s", "/">>

str_resource ==
    <<"r", "e", "s", "o", "u", "r", "c", "e">>

str_fn0_resource ==
    <<":", "0", "0", ".", "0", "/", "r", "e", "s", "o", "u", "r", "c", "e">>

str_nvidia ==
    <<"n", "v", "i", "d", "i", "a">>

str_rocm ==
    <<"r", "o", "c", "m">>

\* The names of has_gpu_environment's gpu_env_patterns.
str_CUDA_VISIBLE_DEVICES ==
    <<"C", "U", "D", "A", "_", "V", "I", "S", "I", "B", "L", "E", "_", "D",
      "E", "V", "I", "C", "E", "S">>

str_NVIDIA_VISIBLE_DEVICES ==
    <<"N", "V", "I", "D", "I", "A", "_", "V", "I", "S", "I", "B", "L", "E",
      "_", "D", "E", "V", "I", "C", "E", "S">>

str_NVIDIA_DRIVER_CAPABILITIES ==
    <<"N", "V", "I", "D", "I", "A", "_", "D", "R", "I", "V", "E", "R", "_",
      "C", "A", "P", "A", "B", "I", "L", "I", "T", "I", "E", "S">>

str_LD_LIBRARY_PATH ==
    <<"L", "D", "_", "L", "I", "B", "R", "A", "R", "Y", "_", "P", "A", "T",
      "H">>

str_ROCR_VISIBLE_DEVICES ==
    <<"R", "O", "C", "R", "_", "V", "I", "S", "I", "B", "L", "E", "_", "D",
      "E", "V", "I", "C", "E", "S">>

str_HIP_VISIBLE_DEVICES ==
    <<"H", "I", "P", "_", "V", "I", "S", "I", "B", "L", "E", "_", "D", "E",
      "V", "I", "C", "E", "S">>


\* The paths, keys and values of the processes that SpecScan looks at.
target_nvidia0 ==
    <<"/", "d", "e", "v", "/", "n", "v", "i", "d", "i", "a", "0">>

target_nvidia12 ==
    <<"/", "d", "e", "v", "/", "n", "v", "i", "d", "i", "a", "1", "2">>

target_nvidia_huge ==
    <<"/", "d", "e", "v", "/", "n", "v", "i", "d", "i", "a", "9", "9", "9",
      "9", "9", "9", "9", "9", "9", "9", "9">>

target_nvidia_uvm ==
    <<"/", "d", "e", "v", "/", "n", "v", "i", "d", "i", "a", "-", "u", "v",
      "m">>

target_nvidiactl ==
    <<"/", "d", "e", "v", "/", "n", "v", "i", "d", "i", "a", "c", "t", "l">>

target_nvidia_modeset ==
    <<"/", "d", "e", "v", "/", "n", "v", "i", "d", "i", "a", "-", "m", "o",
      "d", "e", "s", "e", "t">>

target_dri ==
    <<"/", "d", "e", "v", "/", "d", "r", "i", "/", "c", "a", "r", "d", "0">>

target_kfd ==
    <<"/", "d", "e", "v", "/", "k", "f", "d">>

target_shm_cuda ==
    <<"/", "d", "e", "v", "/", "s", "h", "m", "/", "c", "u", "d", "a", ".",
      "1">>

target_null ==
    <<"/", "d", "e", "v", "/", "n", "u", "l", "l">>

target_tmp_nvidia ==
    <<"/", "t", "m", "p", "/", "d", "e", "v", "/", "n", "v", "i", "d", "i",
      "a", "0">>

path_shm_nccl ==
    <<"/", "d", "e", "v", "/", "s", "h", "m", "/", "n", "c", "c", "l", "-",
      "1">>

path_shm_plain ==
    <<"/", "d", "e", "v", "/", "s", "h", "m", "/", "s", "e", "m", ".", "1">>

path_anon_cuda ==
    <<"[", "a", "n", "o", "n", ":", "c", "u", "d", "a", "]">>

path_anon_plain ==
    <<"[", "a", "n", "o", "n", ":", "a", "r", "e", "n", "a", "]">>

path_heap ==
    <<"[", "h", "e", "a", "p", "]">>

path_bar_fn0 ==
    <<"/", "s", "y", "s", "/", "b", "u", "s", "/", "p", "c", "i", "/", "d",
      "e", "v", "i", "c", "e", "s", "/", "0", "0", "0", "0", ":", "0", "1",
      ":", "0", "0", ".", "0", "/", "r", "e", "s", "o", "u", "r", "c", "e",
      "0">>

path_bar_fn1 ==
    <<"/", "s", "y", "s", "/", "b", "u", "s", "/", "p", "c", "i", "/", "d",
      "e", "v", "i", "c", "e", "s", "/", "0", "0", "0", "0", ":", "0", "1",
      ":", "0", "0", ".", "1", "/", "r", "e", "s", "o", "u", "r", "c", "e",
      "0">>

path_libc ==
    <<"/", "u", "s", "r", "/", "l", "i", "b", "/", "l", "i", "b", "c", ".",
      "s", "o", ".", "6">>

key_PATH ==
    <<"P", "A", "T", "H">>

key_HOME ==
    <<"H", "O", "M", "E">>

key_MY_CUDA ==
    <<"M", "Y", "_", "C", "U", "D", "A", "_", "V", "I", "S", "I", "B", "L",
      "E", "_", "D", "E", "V", "I", "C", "E", "S", "_", "O", "L", "D">>

value_usr_bin ==
    <<"/", "u", "s", "r", "/", "b", "i", "n">>

value_opt_cuda ==
    <<"/", "o", "p", "t", "/", "c", "u", "d", "a", "/", "l", "i", "b", "6",
      "4">>

value_zero ==
    <<"0">>

target_nvidia7_uvm ==
    <<"/", "d", "e", "v", "/", "n", "v", "i", "d", "i", "a", "7", "/", "n",
      "v", "i", "d", "i", "a", "-", "u", "v", "m">>

target_ctl_uvm ==
    <<"/", "d", "e", "v", "/", "n", "v", "i", "d", "i", "a", "c", "t", "l",
      "/", "n", "v", "i", "d", "i", "a", "-", "u", "v", "m">>

key_LD_LIBRARY_PATH_OLD ==
    <<"L", "D", "_", "L", "I", "B", "R", "A", "R", "Y", "_", "P", "A", "T",
      "H", "_", "O", "L", "D">>


\* ---- detector/process.rs

\* The capture group of the leftmost match of /dev/nvidia(\d+) in s: the
\* longest run of digits after the first /dev/nvidia that a digit follows.
regex_captures(s) ==
    LET n    == Len(str_dev_nvidia)
        hits == {i \in find(s, str_dev_nvidia) :
                    i + n <= Len(s) /\ s[i + n] \in Digits}
    IN  IF hits = {} THEN None
        ELSE LET i    == CHOOSE h \in hits : \A o \in hits : h <= o
                 from == i + n
                 last == CHOOSE j \in from..Len(s) :
                            /\ \A k \in from..j : s[k] \in Digits
                            /\ (j = Len(s) \/ s[j + 1] \notin Digits)
             IN  Some(SubSeq(s, from, last))

GpuDeviceType ==
    {"NvidiaDevice", "NvidiaControl", "NvidiaUvm", "AmdGpu", "SharedMemory",
     "Unknown"}

FileDescriptor(fd, target) == [fd |-> fd, target |-> target]

GpuFdInfo(fd, device_type, device_id) ==
    [fd          |-> fd.fd,
     device_type |-> device_type,
     device_id   |-> device_id,
     path        |-> fd.target]

classify_fd_numbered_first(fd) ==
    IF starts_with(fd.target, str_dev_nvidia)
    THEN IF regex_captures(fd.target) # None
         THEN Some(GpuFdInfo(fd, "NvidiaDevice",
                             parse_u32(regex_captures(fd.target)[1])))
         ELSE IF contains(fd.target, str_nvidia_uvm)
         THEN Some(GpuFdInfo(fd, "NvidiaUvm", None))
         ELSE IF contains(fd.target, str_nvidiactl)
         THEN Some(GpuFdInfo(fd, "NvidiaControl", None))
         ELSE Some(GpuFdInfo(fd, "Unknown", None))
    ELSE IF \/ starts_with(fd.target, str_dev_dri)
            \/ starts_with(fd.target, str_dev_kfd)
    THEN Some(GpuFdInfo(fd, "AmdGpu", None))
    ELSE IF /\ starts_with(fd.target, str_dev_shm)
            /\ contains(fd.target, str_cuda)
    THEN Some(GpuFdInfo(fd, "SharedMemory", None))
    ELSE None

\* ProcessScanner::classify_fd
classify_fd(fd) ==
    IF starts_with(fd.target, str_dev_nvidia)
    THEN IF contains(fd.target, str_nvidia_uvm)
         THEN Some(GpuFdInfo(fd, "NvidiaUvm", None))
         ELSE IF contains(fd.target, str_nvidiactl)
         THEN Some(GpuFdInfo(fd, "NvidiaControl", None))
         ELSE IF regex_captures(fd.target) # None
         THEN Some(GpuFdInfo(fd, "NvidiaDevice",
                             parse_u32(regex_captures(fd.target)[1])))
         ELSE Some(GpuFdInfo(fd, "Unknown", None))
    ELSE IF \/ starts_with(fd.target, str_dev_dri)
            \/ starts_with(fd.target, str_dev_kfd)
    THEN Some(GpuFdInfo(fd, "AmdGpu", None))
    ELSE IF /\ starts_with(fd.target, str_dev_shm)
            /\ contains(fd.target, str_cuda)
    THEN Some(GpuFdInfo(fd, "SharedMemory", None))
    ELSE None

gpu_env_patterns ==
    {str_CUDA_VISIBLE_DEVICES, str_NVIDIA_VISIBLE_DEVICES,
     str_NVIDIA_DRIVER_CAPABILITIES, str_LD_LIBRARY_PATH,
     str_ROCR_VISIBLE_DEVICES, str_HIP_VISIBLE_DEVICES}

EnvVar(key, value) == [key |-> key, value |-> value]

has_gpu_environment_any_value(env_vars) ==
    \E i \in 1..Len(env_vars) :
        \/ \E pattern \in gpu_env_patterns : contains(env_vars[i].key, pattern)
        \/ \/ contains(env_vars[i].value, str_cuda)
           \/ contains(env_vars[i].value, str_nvidia)
           \/ contains(env_vars[i].value, str_rocm)

\* ProcessScanner::has_gpu_environment, lines 169-193, on the variables that
\* check_process_environ returned.
has_gpu_environment(env_vars) ==
    \E i \in 1..Len(env_vars) :
        \/ \E pattern \in gpu_env_patterns : contains(env_vars[i].key, pattern)
        \/ /\ env_vars[i].key = str_LD_LIBRARY_PATH
           /\ \/ contains(env_vars[i].value, str_cuda)
              \/ contains(env_vars[i].value, str_nvidia)
              \/ contains(env_vars[i].value, str_rocm)

\* ---- detector/memory.rs

MemoryRegion(start, end, pathname) ==
    [start |-> start, end |-> end, pathname |-> pathname]

\* 1024 * 1024 * 64, the least size of a large anonymous mapping.
LARGE_ANON == 67108864

\* MemoryMapParser::classify_region
classify_region(region) ==
    IF region.pathname = None THEN None
    ELSE LET pathname == region.pathname[1] IN
         IF contains(pathname, str_dev_nvidia)
         THEN Some(GpuAllocation_new(
                  region.start, region.end,
                  IF contains(pathname, str_nvidia_uvm)
                  THEN "Uvm" ELSE "Standard"))
         ELSE IF /\ pathname = str_heap \/ starts_with(pathname, str_anon)
                 /\ wrapping_sub(region.end, region.start) >= LARGE_ANON
         THEN Some(GpuAllocation_new(region.start, region.end, "Unknown"))
         ELSE IF /\ contains(pathname, str_pci_devices)
                 /\ contains(pathname, str_resource)
         THEN Some(GpuAllocation_new(region.start, region.end, "BarMapped"))
         ELSE None

\* str::split on a set of separator characters: the pieces between them,
\* empty ones included.
RECURSIVE split_any(_, _)
split_any(s, seps) ==
    IF \A i \in 1..Len(s) : s[i] \notin seps THEN <<s>>
    ELSE LET i == CHOOSE j \in 1..Len(s) :
                    s[j] \in seps /\ \A k \in 1..(j - 1) : s[k] \notin seps
         IN  <<SubSeq(s, 1, i - 1)>> \o split_any(SubSeq(s, i + 1, Len(s)), seps)

Whitespace == {" ", "\t"}

\* line.split_whitespace().collect()
split_whitespace(line) ==
    LET non_empty(piece) == piece # <<>> IN
    SelectSeq(split_any(line, Whitespace), non_empty)

\* char::to_digit for the radixes up to 16; 16 for a character that is no
\* digit.
to_digit(c) ==
    CASE c \in Digits -> digit_value(c)
      [] c \in {"a", "A"} -> 10
      [] c \in {"b", "B"} -> 11
      [] c \in {"c", "C"} -> 12
      [] c \in {"d", "D"} -> 13
      [] c \in {"e", "E"} -> 14
      [] c \in {"f", "F"} -> 15
      [] OTHER -> 16

RECURSIVE parse_digits(_, _, _)
parse_digits(acc, digits, radix) ==
    IF digits = <<>> THEN Some(acc)
    ELSE LET d == to_digit(digits[1]) IN
         IF d >= radix THEN None
         ELSE IF acc > (U64_MAX - d) \div radix THEN None
         ELSE parse_digits(radix * acc + d, Tail(digits), radix)

\* u64::from_str_radix(s, radix).ok(): an optional + and then at least one
\* digit; None for any other string and for a number that does not fit.
from_str_radix(s, radix) ==
    LET digits == IF s # <<>> /\ s[1] = "+" THEN Tail(s) ELSE s IN
    IF digits = <<>> THEN None ELSE parse_digits(0, digits, radix)

\* parts.join(" ")
RECURSIVE join(_)
join(parts) ==
    IF Len(parts) = 1 THEN parts[1]
    ELSE parts[1] \o <<" ">> \o join(Tail(parts))

\* MemoryMapParser::parse_line
parse_line(line) ==
    LET parts      == split_whitespace(line)
        addr_parts == split_any(parts[1], {"-"})
    IN  IF Len(parts) < 5 THEN None
        ELSE IF Len(addr_parts) # 2 THEN None
        ELSE IF from_str_radix(addr_parts[1], 16) = None THEN None
        ELSE IF from_str_radix(addr_parts[2], 16) = None THEN None
        ELSE IF from_str_radix(parts[3], 16) = None THEN None
        ELSE IF from_str_radix(parts[5], 10) = None THEN None
        ELSE Some(MemoryRegion(
                from_str_radix(addr_parts[1], 16)[1],
                from_str_radix(addr_parts[2], 16)[1],
                IF Len(parts) > 5
                THEN Some(join(SubSeq(parts, 6, Len(parts)))) ELSE None))

\* ---- detector/nvidia.rs

RECURSIVE detect_uvm_allocations_one_per_region(_)
detect_uvm_allocations_one_per_region(regions) ==
    IF regions = <<>> THEN <<>>
    ELSE LET region  == regions[1]
             direct  ==
                IF /\ region.pathname # None
                   /\ contains(region.pathname[1], str_dev_nvidia_uvm)
                THEN <<GpuAllocation_new(region.start, region.end, "Uvm")>>
                ELSE <<>>
             managed ==
                IF /\ region.pathname # None
                   /\ direct = <<>>
                   /\ starts_with(region.pathname[1], str_anon)
                   /\ contains(region.pathname[1], str_cuda)
                THEN <<GpuAllocation_new(region.start, region.end, "Managed")>>
                ELSE <<>>
         IN  direct \o managed
                \o detect_uvm_allocations_one_per_region(Tail(regions))

RECURSIVE detect_uvm_allocations(_)
detect_uvm_allocations(regions) ==
    IF regions = <<>> THEN <<>>
    ELSE LET region  == regions[1]
             direct  ==
                IF /\ region.pathname # None
                   /\ contains(region.pathname[1], str_dev_nvidia_uvm)
                THEN <<GpuAllocation_new(region.start, region.end, "Uvm")>>
                ELSE <<>>
             managed ==
                IF /\ region.pathname # None
                   /\ starts_with(region.pathname[1], str_anon)
                   /\ contains(region.pathname[1], str_cuda)
                THEN <<GpuAllocation_new(region.start, region.end, "Managed")>>
                ELSE <<>>
         IN  direct \o managed \o detect_uvm_allocations(Tail(regions))

RECURSIVE detect_ipc_allocations(_)
detect_ipc_allocations(regions) ==
    IF regions = <<>> THEN <<>>
    ELSE LET region == regions[1]
             found  ==
                IF /\ region.pathname # None
                   /\ starts_with(region.pathname[1], str_dev_shm)
                   /\ \/ contains(region.pathname[1], str_cuda)
                      \/ contains(region.pathname[1], str_nccl)
                THEN <<GpuAllocation_new(
                          region.start, region.end,
                          IF \/ contains(region.pathname[1], str_nccl)
                             \/ contains(region.pathname[1], str_horovod)
                          THEN "Distributed" ELSE "Ipc")>>
                ELSE <<>>
         IN  found \o detect_ipc_allocations(Tail(regions))

RECURSIVE detect_bar_mappings_as_standard(_)
detect_bar_mappings_as_standard(regions) ==
    IF regions = <<>> THEN <<>>
    ELSE LET region == regions[1]
             found  ==
                IF /\ region.pathname # None
                   /\ contains(region.pathname[1], str_pci_devices)
                   /\ contains(region.pathname[1], str_fn0_resource)
                THEN <<GpuAllocation_new(region.start, region.end, "Standard")>>
                ELSE <<>>
         IN  found \o detect_bar_mappings_as_standard(Tail(regions))

RECURSIVE detect_bar_mappings(_)
detect_bar_mappings(regions) ==
    IF regions = <<>> THEN <<>>
    ELSE LET region == regions[1]
             found  ==
                IF /\ region.pathname # None
                   /\ contains(region.pathname[1], str_pci_devices)
                   /\ contains(region.pathname[1], str_fn0_resource)
                THEN <<GpuAllocation_new(region.start, region.end, "BarMapped")>>
                ELSE <<>>
         IN  found \o detect_bar_mappings(Tail(regions))

\* The filter of detect_allocations, lines 145-150.
is_nvidia_fd(info) ==
    info.device_type \in {"NvidiaDevice", "NvidiaControl", "NvidiaUvm"}

\* fds.iter().filter_map(classify_fd).filter(is_nvidia_fd).collect()
RECURSIVE gpu_fds_of(_)
gpu_fds_of(fds) ==
    IF fds = <<>> THEN <<>>
    ELSE LET info == classify_fd(fds[1]) IN
         (IF info # None /\ is_nvidia_fd(info[1]) THEN info ELSE <<>>)
            \o gpu_fds_of(Tail(fds))

\* result.add_allocation(alloc) for each alloc, in order.
RECURSIVE add_allocations(_, _)
add_allocations(result, allocs) ==
    IF allocs = <<>> THEN result
    ELSE add_allocations(add_allocation(result, allocs[1]), Tail(allocs))

\* ------------------------------------------------------------- SpecScan

\* /proc/<pid>/maps lists at most MaxRegions regions, /proc/<pid>/fd at most
\* MaxFds descriptors and /proc/<pid>/environ at most MaxEnvVars variables.
MaxRegions == 2

MaxFds == 2

MaxEnvVars == 1

RECURSIVE SeqsUpTo(_, _)
SeqsUpTo(S, n) ==
    IF n = 0 THEN {<<>>}
    ELSE LET shorter == SeqsUpTo(S, n - 1) IN
         shorter \cup {Append(q, x) : q \in {y \in shorter : Len(y) = n - 1},
                                      x \in S}

path_anon_cuda_uvm ==
    <<"[", "a", "n", "o", "n", ":", "c", "u", "d", "a", ":", "/", "d", "e",
      "v", "/", "n", "v", "i", "d", "i", "a", "-", "u", "v", "m", "]">>

Pathnames ==
    {None, Some(path_anon_cuda_uvm), Some(target_nvidia0), Some(target_nvidia_uvm),
     Some(target_tmp_nvidia), Some(target_shm_cuda), Some(path_shm_nccl),
     Some(path_shm_plain), Some(path_anon_cuda), Some(path_anon_plain),
     Some(path_heap), Some(path_bar_fn0), Some(path_bar_fn1),
     Some(path_libc)}

\* A page, one byte less than a large anonymous mapping, and exactly one.
RegionRanges ==
    {<<4096, 8192>>, <<4096, 4095 + LARGE_ANON>>, <<4096, 4096 + LARGE_ANON>>}

Regions ==
    {MemoryRegion(r[1], r[2], p) : r \in RegionRanges, p \in Pathnames}

\* Lines of a memory map, well-formed and not.
line_plain ==
    <<"0", "0", "0", "0", "1", "0", "0", "0", "-", "0", "0", "0", "0", "2",
      "0", "0", "0", " ", "r", "w", "-", "p", " ", "0", "0", "0", "0", "0",
      "0", "0", "0", " ", "0", "0", ":", "0", "0", " ", "0">>

line_libc ==
    <<"7", "f", "0", "0", "-", "7", "F", "1", "0", " ", "r", "-", "x", "p",
      " ", "0", "0", "0", "0", "1", "0", "0", "0", " ", "f", "d", ":", "0",
      "1", " ", "1", "2", "3", "4", " ", "/", "u", "s", "r", "/", "l", "i",
      "b", "/", "l", "i", "b", "c", ".", "s", "o", ".", "6">>

line_spaced_path ==
    <<"1", "0", "0", "0", "-", "2", "0", "0", "0", " ", "r", "w", "-", "s",
      " ", "0", " ", "0", "0", ":", "0", "5", " ", "7", " ", "/", "d", "e",
      "v", "/", "s", "h", "m", "/", "m", "y", " ", " ", "f", "i", "l", "e">>

line_padded ==
    <<" ", " ", "1", "0", "0", "0", "-", "2", "0", "0", "0", "\t", "r", "w",
      "-", "p", " ", " ", "0", " ", " ", "0", "0", ":", "0", "0", " ", " ",
      "0", " ", " ", "[", "h", "e", "a", "p", "]", " ", " ">>

line_four_fields ==
    <<"1", "0", "0", "0", "-", "2", "0", "0", "0", " ", "r", "w", "-", "p",
      " ", "0", " ", "0", "0", ":", "0", "0">>

line_empty ==
    <<>>

line_no_dash ==
    <<"1", "0", "0", "0", " ", "r", "w", "-", "p", " ", "0", " ", "0", "0",
      ":", "0", "0", " ", "0">>

line_two_dashes ==
    <<"1", "0", "0", "0", "-", "2", "0", "0", "0", "-", "3", "0", "0", "0",
      " ", "r", "w", "-", "p", " ", "0", " ", "0", "0", ":", "0", "0", " ",
      "0">>

line_no_start ==
    <<"-", "2", "0", "0", "0", " ", "r", "w", "-", "p", " ", "0", " ", "0",
      "0", ":", "0", "0", " ", "0">>

line_bad_hex ==
    <<"1", "0", "g", "0", "-", "2", "0", "0", "0", " ", "r", "w", "-", "p",
      " ", "0", " ", "0", "0", ":", "0", "0", " ", "0">>

line_bad_offset ==
    <<"1", "0", "0", "0", "-", "2", "0", "0", "0", " ", "r", "w", "-", "p",
      " ", "z", "z", " ", "0", "0", ":", "0", "0", " ", "0">>

line_bad_inode ==
    <<"1", "0", "0", "0", "-", "2", "0", "0", "0", " ", "r", "w", "-", "p",
      " ", "0", " ", "0", "0", ":", "0", "0", " ", "1", "x">>

line_too_large ==
    <<"f", "f", "f", "f", "f", "f", "f", "f", "f", "f", "f", "f", "f", "f",
      "f", "f", "f", "-", "2", "0", "0", "0", " ", "r", "w", "-", "p", " ",
      "0", " ", "0", "0", ":", "0", "0", " ", "0">>

line_plus_sign ==
    <<"+", "1", "0", "0", "0", "-", "2", "0", "0", "0", " ", "r", "w", "-",
      "p", " ", "0", " ", "0", "0", ":", "0", "0", " ", "0">>

line_reversed ==
    <<"2", "0", "0", "0", "-", "1", "0", "0", "0", " ", "r", "w", "-", "p",
      " ", "0", " ", "0", "0", ":", "0", "0", " ", "0">>

line_empty_range ==
    <<"1", "0", "0", "0", "-", "1", "0", "0", "0", " ", "r", "w", "-", "p",
      " ", "0", " ", "0", "0", ":", "0", "0", " ", "0">>

Lines ==
    {line_plain,
     line_libc,
     line_spaced_path,
     line_padded,
     line_four_fields,
     line_empty,
     line_no_dash,
     line_two_dashes,
     line_no_start,
     line_bad_hex,
     line_bad_offset,
     line_bad_inode,
     line_too_large,
     line_plus_sign,
     line_reversed,
     line_empty_range}

\* The regions of the maps that detect_allocations parses are one page long.
MapRegions == {r \in Regions : r.end = 8192}

Targets ==
    {target_nvidia0, target_nvidia12, target_nvidia_huge, target_nvidia_uvm,
     target_nvidiactl, target_nvidia_modeset, target_nvidia7_uvm,
     target_ctl_uvm, target_dri, target_kfd, target_shm_cuda, target_null,
     target_tmp_nvidia}

\* The descriptors of /proc/<pid>/fd are numbered from 3 in listing order.
number_fds(targets) ==
    [i \in 1..Len(targets) |-> FileDescriptor(i + 2, targets[i])]

EnvVars ==
    {EnvVar(key_PATH, value_usr_bin),
     EnvVar(key_HOME, value_opt_cuda),
     EnvVar(str_CUDA_VISIBLE_DEVICES, value_zero),
     EnvVar(key_MY_CUDA, value_zero),
     EnvVar(str_LD_LIBRARY_PATH, value_usr_bin),
     EnvVar(str_LD_LIBRARY_PATH, value_opt_cuda),
     EnvVar(key_LD_LIBRARY_PATH_OLD, value_usr_bin)}

\* What parse_maps, scan_file_descriptors and check_process_environ may
\* return for a process.
MapsOutcomes ==
    {Ok(q) : q \in SeqsUpTo(MapRegions, MaxRegions)}
    \cup {Err("ProcessNotFound"), Err("PermissionDenied"), Err("IoError")}

FdsOutcomes ==
    {Ok(number_fds(q)) : q \in SeqsUpTo(Targets, MaxFds)}
    \cup {Err("ProcessNotFound"), Err("PermissionDenied"), Err("IoError")}

EnvironOutcomes ==
    {Ok(q) : q \in SeqsUpTo(EnvVars, MaxEnvVars)} \cup {Err("IoError")}

\* The locals of detect_allocations (or the argument of classify_region when
\* pc is "classify_region"), with what each read of /proc returned.
scan_init(at, pid, region) ==
    [pc         |-> at,
     pid        |-> pid,
     region     |-> region,
     classified |-> None,
     maps       |-> None,
     regions    |-> <<>>,
     fds        |-> None,
     fd_infos   |-> <<>>,
     gpu_fds    |-> <<>>,
     environ    |-> None,
     gpu_env    |-> None,
     line       |-> <<>>,
     parsed     |-> None,
     uvm_allocs |-> <<>>,
     ipc_allocs |-> <<>>,
     bar_allocs |-> <<>>,
     result     |-> DetectionResult_new(pid),
     returned   |-> None]

InitScan ==
    /\ overflow_checks = FALSE
    /\ detection \in {DetectionResult_new(pid) : pid \in Pids}
    /\ panicked = FALSE
    /\ strategy = None
    /\ pc = "idle"
    /\ IdleCheckpoint
    /\ IdleRestore
    /\ composite = <<>>
    /\ codec = <<>>
    /\ engine = <<>>
    /\ scan \in {scan_init("parse_maps", pid, None) : pid \in Pids}
            \cup {scan_init("classify_region", pid, Some(r)) :
                    pid \in Pids, r \in Regions}
            \cup {[scan_init("parse_line", pid, None) EXCEPT !.line = l] :
                    pid \in Pids, l \in Lines}

\* MemoryMapParser::classify_region(&region)
ClassifyRegion ==
    /\ scan # <<>>
    /\ scan.pc = "classify_region"
    /\ scan' = [scan EXCEPT !.classified = Some(classify_region(scan.region[1])),
                            !.pc = "done"]
    /\ UNCHANGED <<detect_vars, pc, ck_vars, rs_vars, composite, codec, engine>>

\* MemoryMapParser::parse_line(&line)
ParseLine ==
    /\ scan # <<>>
    /\ scan.pc = "parse_line"
    /\ scan' = [scan EXCEPT !.parsed = Some(parse_line(scan.line)),
                            !.pc = "done"]
    /\ UNCHANGED <<detect_vars, pc, ck_vars, rs_vars, composite, codec, engine>>

\* detect_allocations, line 139: parse_maps(pid)?
ParseMaps ==
    /\ scan # <<>>
    /\ scan.pc = "parse_maps"
    /\ \E outcome \in MapsOutcomes :
        scan' = IF outcome[1].ok
                THEN [scan EXCEPT !.maps = outcome,
                                  !.regions = outcome[1].value,
                                  !.pc = "scan_fds"]
                ELSE [scan EXCEPT !.maps = outcome,
                                  !.returned = outcome,
                                  !.pc = "done"]
    /\ UNCHANGED <<detect_vars, pc, ck_vars, rs_vars, composite, codec, engine>>

\* detect_allocations, lines 142-151: scan_file_descriptors(pid)? and the
\* NVIDIA descriptors among them.
ScanFds ==
    /\ scan # <<>>
    /\ scan.pc = "scan_fds"
    /\ \E outcome \in FdsOutcomes :
        scan' = IF outcome[1].ok
                THEN [scan EXCEPT
                        !.fds = outcome,
                        !.fd_infos = [i \in 1..Len(outcome[1].value) |->
                                        classify_fd(outcome[1].value[i])],
                        !.gpu_fds = gpu_fds_of(outcome[1].value),
                        !.pc = "gate"]
                ELSE [scan EXCEPT !.fds = outcome,
                                  !.returned = outcome,
                                  !.pc = "done"]
    /\ UNCHANGED <<detect_vars, pc, ck_vars, rs_vars, composite, codec, engine>>

\* detect_allocations, line 153 with an NVIDIA descriptor: the `&&` does not
\* evaluate has_gpu_environment.
GateFds ==
    /\ scan # <<>>
    /\ scan.pc = "gate"
    /\ scan.gpu_fds # <<>>
    /\ scan' = [scan EXCEPT !.pc = "detect"]
    /\ UNCHANGED <<detect_vars, pc, ck_vars, rs_vars, composite, codec, engine>>

\* detect_allocations, lines 153-156 without one: has_gpu_environment(pid)?
\* decides between the empty result and the scans.
GateEnvironment ==
    /\ scan # <<>>
    /\ scan.pc = "gate"
    /\ scan.gpu_fds = <<>>
    /\ \E outcome \in EnvironOutcomes :
        scan' = IF ~outcome[1].ok
                THEN [scan EXCEPT !.environ = outcome,
                                  !.returned = outcome,
                                  !.pc = "done"]
                ELSE IF has_gpu_environment(outcome[1].value)
                THEN [scan EXCEPT !.environ = outcome,
                                  !.gpu_env = Some(TRUE),
                                  !.pc = "detect"]
                ELSE [scan EXCEPT !.environ = outcome,
                                  !.gpu_env = Some(FALSE),
                                  !.returned = Ok(scan.result),
                                  !.pc = "done"]
    /\ UNCHANGED <<detect_vars, pc, ck_vars, rs_vars, composite, codec, engine>>

\* detect_allocations, lines 159-161: the three scans of the regions.
DetectRegions ==
    /\ scan # <<>>
    /\ scan.pc = "detect"
    /\ scan' = [scan EXCEPT
                    !.uvm_allocs = detect_uvm_allocations(scan.regions),
                    !.ipc_allocs = detect_ipc_allocations(scan.regions),
                    !.bar_allocs = detect_bar_mappings(scan.regions),
                    !.pc = "add"]
    /\ UNCHANGED <<detect_vars, pc, ck_vars, rs_vars, composite, codec, engine>>

\* detect_allocations, lines 164-184: the three loops of add_allocation and
\* Ok(result).  No region of MapRegions ends before it starts and no sum of
\* their sizes reaches U64, so the two build profiles agree here.
AddAndReturn ==
    /\ scan # <<>>
    /\ scan.pc = "add"
    /\ LET result == add_allocations(
                        add_allocations(
                            add_allocations(scan.result, scan.uvm_allocs),
                            scan.ipc_allocs),
                        scan.bar_allocs)
       IN  scan' = [scan EXCEPT !.result = result,
                                !.returned = Ok(result),
                                !.pc = "done"]
    /\ UNCHANGED <<detect_vars, pc, ck_vars, rs_vars, composite, codec, engine>>

\* main.rs, lines 135-137 and 165: select_strategy on the result that
\* detect_allocations returned.
RecommendStrategy ==
    /\ scan # <<>>
    /\ scan.pc = "done"
    /\ scan.returned # None /\ scan.returned[1].ok
    /\ strategy = None
    /\ strategy' = Some(select_strategy(scan.returned[1].value))
    /\ UNCHANGED <<overflow_checks, detection, panicked>>
    /\ UNCHANGED <<pc, ck_vars, rs_vars, scan_vars>>

NextScan ==
    \/ ClassifyRegion
    \/ ParseLine
    \/ ParseMaps
    \/ ScanFds
    \/ GateFds
    \/ GateEnvironment
    \/ DetectRegions
    \/ AddAndReturn
    \/ RecommendStrategy

SpecScan == InitScan /\ [][NextScan]_vars


\* ------------------------------------------------------------ SpecCodec

\* The values a u32 and a u64 field of a header take.
U32Samples == {0, 1, 258, CHECKPOINT_MAGIC, U32_MAX}

U64Samples == {0, 258, 16777217, U64_MAX}

CheckpointHeaders ==
    [magic : U32Samples, version : U32Samples, pid : U32Samples,
     num_allocations : U32Samples, total_size : U64Samples,
     timestamp : U64Samples]

AllocationHeaders ==
    [vaddr_start : U64Samples, vaddr_end : U64Samples, size : U64Samples,
     device_id : U32Samples, flags : U32Samples]

\* A header in memory, the file it is written to and read back from.
codec_init(at, header) ==
    [pc |-> at, header |-> header, file |-> <<>>, read |-> None]

InitCodec ==
    /\ overflow_checks = FALSE
    /\ detection \in {DetectionResult_new(pid) : pid \in Pids}
    /\ panicked = FALSE
    /\ strategy = None
    /\ pc = "idle"
    /\ IdleCheckpoint
    /\ IdleRestore
    /\ scan = <<>>
    /\ composite = <<>>
    /\ engine = <<>>
    /\ codec \in {codec_init("write_header", h) : h \in CheckpointHeaders}
             \cup {codec_init("write_allocation_header", h) :
                     h \in AllocationHeaders}

\* write_header(&mut file, &header) on an empty file
WriteHeader ==
    /\ codec # <<>>
    /\ codec.pc = "write_header"
    /\ codec' = [codec EXCEPT !.file = write_header(codec.header),
                              !.pc = "read_header"]
    /\ UNCHANGED <<detect_vars, pc, ck_vars, rs_vars, scan, composite, engine>>

\* read_header(&mut file) from the start of the file
ReadHeader ==
    /\ codec # <<>>
    /\ codec.pc = "read_header"
    /\ codec' = [codec EXCEPT
                    !.read = IF Len(codec.file) >= 32
                             THEN Ok(read_header(SubSeq(codec.file, 1, 32)))
                             ELSE Err("IoError"),
                    !.pc = "done"]
    /\ UNCHANGED <<detect_vars, pc, ck_vars, rs_vars, scan, composite, engine>>

\* write_allocation_header(&mut file, &header) on an empty file
WriteAllocationHeader ==
    /\ codec # <<>>
    /\ codec.pc = "write_allocation_header"
    /\ codec' = [codec EXCEPT
                    !.file = write_allocation_header(codec.header),
                    !.pc = "read_allocation_header"]
    /\ UNCHANGED <<detect_vars, pc, ck_vars, rs_vars, scan, composite, engine>>

\* read_allocation_header(&mut file) from the start of the file
ReadAllocationHeader ==
    /\ codec # <<>>
    /\ codec.pc = "read_allocation_header"
    /\ codec' = [codec EXCEPT
                    !.read = IF Len(codec.file) >= 32
                             THEN Ok(read_allocation_header(
                                        SubSeq(codec.file, 1, 32)))
                             ELSE Err("IoError"),
                    !.pc = "done"]
    /\ UNCHANGED <<detect_vars, pc, ck_vars, rs_vars, scan, composite, engine>>

NextCodec ==
    \/ WriteHeader
    \/ ReadHeader
    \/ WriteAllocationHeader
    \/ ReadAllocationHeader

SpecCodec == InitCodec /\ [][NextCodec]_vars

\* ----------------------------------------------------------- SpecEngine

\* The allocations of the detections that the engine is given: the i-th
\* starts at its own address and has any of the allocation types.
EngineAllocations(i) ==
    {GpuAllocation_new(16 * i, 16 * i + n, t) :
        n \in 0..MaxSize, t \in AllocationType}

RECURSIVE EngineAllocSeqs(_)
EngineAllocSeqs(n) ==
    IF n = 0 THEN {<<>>}
    ELSE LET shorter == EngineAllocSeqs(n - 1) IN
         shorter \cup {Append(q, a) : q \in {x \in shorter : Len(x) = n - 1},
                                      a \in EngineAllocations(n)}

\* The CheckpointMetadata of checkpoint/mod.rs (timestamp and duration_ms,
\* which are clock readings, left out).
CheckpointMetadata(pid, strategy_used, size_bytes) ==
    [pid |-> pid, strategy_used |-> strategy_used, size_bytes |-> size_bytes]

\* main.rs, lines 164-190: the strategy is "auto", so the engine is
\* configured with what select_strategy returns for the detection, and
\* BarSlidingCheckpoint::new() has the default window.
InitEngine ==
    /\ overflow_checks = FALSE
    /\ detection \in {Detect(pid, q) : pid \in Pids, q \in EngineAllocSeqs(MaxAllocs)}
    /\ panicked = FALSE
    /\ strategy = None
    /\ pc = "idle"
    /\ IdleCheckpoint
    /\ IdleRestore
    /\ scan = <<>>
    /\ composite = <<>>
    /\ codec = <<>>
    /\ engine = [pc |-> "match", result |-> None]

\* CheckpointEngine::checkpoint, lines 67-103: the match on the configured
\* strategy.  BarSliding enters checkpoint_process, the two todo!() arms
\* panic, SkipGpu returns at once.
EngineCheckpoint ==
    /\ engine # <<>>
    /\ engine.pc = "match"
    /\ strategy # None
    /\ CASE strategy[1] = "BarSliding" ->
                /\ pc' = "start"
                /\ engine' = [engine EXCEPT !.pc = "bar_sliding"]
                /\ UNCHANGED panicked
          [] strategy[1] \in {"CudaCheckpoint", "Hybrid"} ->
                /\ panicked' = TRUE
                /\ engine' = [engine EXCEPT !.pc = "done"]
                /\ UNCHANGED pc
          [] strategy[1] = "SkipGpu" ->
                /\ engine' = [engine EXCEPT
                        !.pc = "done",
                        !.result = Ok(CheckpointMetadata(detection.pid, "SkipGpu", 0))]
                /\ UNCHANGED <<pc, panicked>>
    /\ UNCHANGED <<overflow_checks, detection, strategy>>
    /\ UNCHANGED <<ck_vars, rs_vars, scan, composite, codec>>

\* CheckpointEngine::checkpoint, lines 74-83: checkpoint_process has
\* returned; `?` passes its error on, otherwise the metadata carries its
\* size_bytes.
EngineReturn ==
    /\ engine # <<>>
    /\ engine.pc = "bar_sliding"
    /\ pc = "ck_done"
    /\ ck_result # None
    /\ engine' = [engine EXCEPT
            !.pc = "done",
            !.result = IF ck_result[1].ok
                       THEN Ok(CheckpointMetadata(detection.pid, "BarSliding",
                                                  ck_result[1].value.size_bytes))
                       ELSE ck_result]
    /\ UNCHANGED <<detect_vars, pc, ck_vars, rs_vars, scan, composite, codec>>

NextEngine ==
    \/ SelectStrategy
    \/ EngineCheckpoint
    \/ CheckpointStart
    \/ CheckpointCreateFails
    \/ CheckpointAllocation
    \/ CopyWindow
    \/ CopyBreak
    \/ CopyReadFails
    \/ CopyExit
    \/ ZeroWindow
    \/ ZeroExit
    \/ CheckpointFinish
    \/ EngineReturn

SpecEngine == InitEngine /\ [][NextEngine]_vars


\* ----------------------------------------------------------------- claims

\* The sum of the sizes of a sequence of allocations, in u64 arithmetic.
RECURSIVE sum_of_sizes(_)
sum_of_sizes(allocs) ==
    IF allocs = <<>> THEN 0
    ELSE (allocs[1].size + sum_of_sizes(Tail(allocs))) % U64

\* The number of payload bytes the checkpoint has written, over all entries.
RECURSIVE payload_written(_)
payload_written(entries) ==
    IF entries = <<>> THEN 0
    ELSE entries[1].payload + payload_written(Tail(entries))

\* C1: select_strategy returns SkipGpu for a detection without allocations,
\* BarSliding when some allocation is Uvm, Managed, Ipc or Distributed, and
\* CudaCheckpoint otherwise; it never returns Hybrid.
C1_SelectStrategy ==
    strategy # None =>
        LET allocs == detection.allocations
            problematic ==
                \E i \in 1..Len(allocs) :
                    allocs[i].alloc_type \in {"Uvm", "Managed", "Ipc", "Distributed"}
        IN
        /\ strategy[1] # "Hybrid"
        /\ strategy[1] = IF Len(allocs) = 0 THEN "SkipGpu"
                         ELSE IF problematic THEN "BarSliding"
                         ELSE "CudaCheckpoint"

\* A strategy has been selected for a detection whose only problematic
\* allocation is the last one, of type Distributed.
C1_Witness ==
    /\ strategy = Some("BarSliding")
    /\ Len(detection.allocations) = 2
    /\ detection.allocations[1].alloc_type = "Standard"
    /\ detection.allocations[2].alloc_type = "Distributed"

\* C2: when checkpoint_process has written a detection to a file and
\* restore_from_checkpoint has read that file with the target's memory absent
\* or not writable, restore returned Ok with num_allocations the number of
\* allocations of the detection and total_size the sum of their sizes, which
\* is the checkpoint's size_bytes.
C2_RoundTrip ==
    (/\ pc = "rs_done"
     /\ ck_result # None
     /\ ck_result[1].ok
     /\ input = file
     /\ dst_mem \in {"absent", "denied"})
    => /\ rs_result # None
       /\ rs_result[1].ok
       /\ rs_result[1].value.num_allocations = Len(detection.allocations)
       /\ rs_result[1].value.total_size = sum_of_sizes(detection.allocations)
       /\ rs_result[1].value.total_size = ck_result[1].value.size_bytes

\* C3: on a file whose header has a magic other than 0x47505543 or a version
\* other than 1, restore_from_checkpoint returns RestoreError, having read
\* nothing past the 32 bytes of the file header and written nothing to the
\* target's memory.
C3_BadHeaderRejected ==
    (/\ input # <<>>
     /\ \/ read_header(input).magic # 1196447043
        \/ read_header(input).version # 1)
    => /\ rs_result = Err("RestoreError")
       /\ rs.pos = 32
       /\ rs.consumed = 0
       /\ rs_entries = <<>>
       /\ target_writes = <<>>

\* A file with allocation entries, the right magic and version 2 has been
\* rejected while the target's memory was writable.
C3_Witness ==
    /\ rs_result = Err("RestoreError")
    /\ read_header(input).magic = 1196447043
    /\ read_header(input).version = 2
    /\ Len(input) > 64
    /\ dst_mem = "writable"

\* C4: after any sequence of add_allocation calls, total_gpu_memory and
\* stats.total_size both equal the sum of the sizes of the allocations, in
\* u64 arithmetic (the sum wraps where the build does not check overflow).
C4_TotalsAreSum ==
    /\ detection.total_gpu_memory = sum_of_sizes(detection.allocations)
    /\ detection.stats.total_size = sum_of_sizes(detection.allocations)

\* Two allocations have been added and their sizes sum past the u64 range.
C4_Witness ==
    /\ ~overflow_checks
    /\ Len(detection.allocations) = 2
    /\ detection.allocations[2].size > 0
    /\ detection.total_gpu_memory < detection.allocations[1].size

\* C5: the checkpoint file is the 32-byte file header followed by one entry
\* per allocation, in the order of detection.allocations: the i-th allocation
\* header carries the vaddr_start, vaddr_end and size of the i-th allocation
\* and the payload written for that allocation (bytes of its memory, or the
\* zero fill) lies right after it, before the next header.
C5_FileLayout ==
    file_exists =>
        LET allocs == detection.allocations
            fh == read_header(SubSeq(file, 1, 32))
        IN
        /\ Len(file) >= 32
        /\ fh.magic = 1196447043
        /\ fh.version = 1
        /\ fh.num_allocations = Len(allocs)
        /\ Len(ck_entries) <= Len(allocs)
        /\ (ck_result # None /\ ck_result[1].ok) => Len(ck_entries) = Len(allocs)
        /\ \A i \in 1..Len(ck_entries) :
            LET e == ck_entries[i]
                h == read_allocation_header(SubSeq(file, e.at + 1, e.at + 32))
                end == IF i < Len(ck_entries) THEN ck_entries[i + 1].at ELSE Len(file)
            IN
            /\ e.at = IF i = 1 THEN 32
                      ELSE ck_entries[i - 1].at + 32 + ck_entries[i - 1].payload
            /\ h.vaddr_start = allocs[i].vaddr_start
            /\ h.vaddr_end = allocs[i].vaddr_end
            /\ h.size = allocs[i].size
            /\ end = e.at + 32 + e.payload
            /\ \A k \in 1..e.payload :
                file[e.at + 32 + k] =
                    IF e.mem = "readable" THEN src_byte(allocs[i].vaddr_start + k - 1)
                    ELSE 0

\* A checkpoint has returned Ok for two allocations, the first copied from
\* memory and the second zero filled.
C5_Witness ==
    /\ ck_result # None
    /\ ck_result[1].ok
    /\ Len(ck_entries) = 2
    /\ ck_entries[1].mem = "readable"
    /\ ck_entries[1].payload = 2
    /\ ck_entries[2].mem = "absent"
    /\ ck_entries[2].payload = 1

\* C6: when checkpoint_process returns Ok, the file is at least
\* 32 + 32 * num_allocations + the sum of the allocation sizes long, and
\* exactly that long when every allocation's copy completed.
C6_FileLength ==
    (ck_result # None /\ ck_result[1].ok) =>
        LET allocs == detection.allocations
            full == 32 + 32 * Len(allocs) + sum_of_sizes(allocs)
        IN
        /\ Len(file) >= full
        /\ (\A i \in 1..Len(allocs) : ck_entries[i].payload = allocs[i].size)
            => Len(file) = full

\* C7: the size_bytes checkpoint_process returns is the number of payload
\* bytes it wrote to the file, whatever the reads of /proc/<pid>/mem returned.
C7_SizeBytesIsPayloadWritten ==
    (ck_result # None /\ ck_result[1].ok) =>
        ck_result[1].value.size_bytes = payload_written(ck_entries)

\* C8: the total_size restore_from_checkpoint returns is the number of payload
\* bytes it consumed from the file, written to the target or skipped.
C8_TotalSizeIsPayloadConsumed ==
    (rs_result # None /\ rs_result[1].ok) =>
        rs_result[1].value.total_size = rs.consumed

\* C9: when the open of /proc/<pid>/mem is denied at allocation i,
\* checkpoint_process returns PermissionDenied, no entry follows the i-th, and
\* the file stays on disk as the file header, the entries before i and the
\* header of allocation i.
C9_PermissionDenied ==
    \A i \in 1..Len(ck_entries) :
        ck_entries[i].mem = "denied" =>
            LET e == ck_entries[i] IN
            /\ ck_result = Err("PermissionDenied")
            /\ i = Len(ck_entries)
            /\ ck.idx = i - 1
            /\ file_exists
            /\ e.payload = 0
            /\ Len(file) = e.at + 32
            /\ e.at = 32 + 32 * (i - 1) + payload_written(SubSeq(ck_entries, 1, i - 1))
            /\ SubSeq(file, e.at + 1, e.at + 32)
                = write_allocation_header(AllocationHeader(detection.allocations[i]))

\* The open was denied at the second allocation, after the first was copied,
\* and a restore has since run on the file that was left.
C9_Witness ==
    /\ Len(ck_entries) = 2
    /\ ck_entries[1].payload > 0
    /\ ck_entries[2].mem = "denied"
    /\ pc = "rs_done"
    /\ input = file

\* C10: when /proc/<target>/mem does not exist, restore_from_checkpoint writes
\* nothing, consumes the size payload bytes of each entry, so that it reads
\* each allocation header where the writer put it, and returns Ok with the
\* num_allocations of the file header.
C10_AbsentTarget ==
    (/\ pc = "rs_done"
     /\ dst_mem = "absent"
     /\ ck_result # None
     /\ ck_result[1].ok
     /\ input = file)
    => /\ target_writes = <<>>
       /\ rs_result # None
       /\ rs_result[1].ok
       /\ rs_result[1].value.num_allocations = read_header(input).num_allocations
       /\ Len(rs_entries) = Len(ck_entries)
       /\ \A i \in 1..Len(rs_entries) : rs_entries[i].at = ck_entries[i].at
       /\ rs.consumed = sum_of_sizes(detection.allocations)

\* C11: with a window of W >= 1 bytes, the payload of an allocation of s
\* bytes grows to exactly s bytes: while the copy runs, the bytes written and
\* the bytes remaining add up to s and the bytes written are the source bytes
\* in address order, so a copy whose reads delivered everything wrote all s;
\* a zero fill that has finished wrote s zero bytes; and no step of either
\* loop appends more than W bytes to the file.
C11_WindowedCopy ==
    /\ [](window_size >= 1 =>
            \A i \in 1..Len(ck_entries) :
                LET e == ck_entries[i]
                    a == detection.allocations[i]
                    running == i = ck.idx + 1 /\ pc \in {"ck_copy", "ck_zero"}
                IN
                /\ running => e.payload + ck.remaining = a.size
                /\ (i <= ck.idx /\ e.mem = "absent") => e.payload = a.size
                /\ e.payload <= a.size
                /\ \A k \in 1..e.payload :
                    file[e.at + 32 + k] =
                        IF e.mem = "absent" THEN 0 ELSE src_byte(a.vaddr_start + k - 1))
    /\ [][(pc \in {"ck_copy", "ck_zero"})
            => (Len(file') - Len(file) <= window_size)]_vars

\* A copy of 2 bytes through a window of 1 byte has delivered everything, and
\* the next allocation was then zero filled.
C11_Witness ==
    /\ window_size = 1
    /\ Len(ck_entries) = 2
    /\ ck.idx = 2
    /\ ck_entries[1].mem = "readable"
    /\ ck_entries[1].payload = 2
    /\ ck_entries[2].mem = "absent"
    /\ ck_entries[2].payload = 2

\* C12: detect_all always returns Ok, and what it returns is the results of
\* the detectors that succeeded, in detector order: a detector that fails adds
\* nothing, and the detectors after it are still asked.
C12_DetectAll ==
    composite # <<>> =>
        LET succeeded(n) ==
                {i \in 1..n : composite.outcomes[i][1].ok}
            in_order(n) ==
                /\ Len(composite.results) = Cardinality(succeeded(n))
                /\ \A i \in succeeded(n) :
                    composite.results[Cardinality(succeeded(i))]
                        = composite.outcomes[i][1].value
        IN
        /\ in_order(composite.idx)
        /\ composite.returned # None =>
            /\ composite.idx = Len(composite.outcomes)
            /\ composite.returned = Ok(composite.results)

\* detect_all has returned after a failing first detector, a succeeding one
\* and another failing one.
C12_Witness ==
    /\ composite # <<>>
    /\ composite.returned # None
    /\ Len(composite.outcomes) = 3
    /\ ~composite.outcomes[1][1].ok
    /\ composite.outcomes[2][1].ok
    /\ ~composite.outcomes[3][1].ok
    /\ Len(composite.results) = 1

\* C13: after any sequence of add_allocation calls, stats.largest_allocation
\* is the largest size among the allocations, and 0 when there is none.
C13_LargestIsMax ==
    LET allocs == detection.allocations
        largest == detection.stats.largest_allocation
    IN
    IF allocs = <<>> THEN largest = 0
    ELSE /\ \E i \in 1..Len(allocs) : allocs[i].size = largest
         /\ \A i \in 1..Len(allocs) : allocs[i].size <= largest

\* The larger of two allocations was added first.
C13_Witness ==
    /\ Len(detection.allocations) = 2
    /\ detection.allocations[2].size > 0
    /\ detection.allocations[1].size > detection.allocations[2].size
    /\ detection.stats.largest_allocation = detection.allocations[1].size

\* C14: after any sequence of add_allocation calls, every alloc_type that
\* occurs among the allocations has a counter in stats, and that counter is
\* the number of allocations of the type.
C14_CountersPerType ==
    LET allocs == detection.allocations
        stats == detection.stats
        count(t) == Cardinality({i \in 1..Len(allocs) : allocs[i].alloc_type = t})
        counter(t) ==
            CASE t = "Standard"    -> <<stats.standard_allocations>>
              [] t = "Uvm"         -> <<stats.uvm_allocations>>
              [] t = "Managed"     -> <<stats.managed_allocations>>
              [] t = "Ipc"         -> <<stats.ipc_allocations>>
              [] t = "Distributed" -> <<stats.distributed_allocations>>
              [] OTHER             -> <<>>
    IN
    \A i \in 1..Len(allocs) :
        counter(allocs[i].alloc_type) = <<count(allocs[i].alloc_type)>>

\* C15: GpuAllocation::new yields an allocation for every start and end, and
\* every allocation has size = vaddr_end - vaddr_start.
C15_SizeIsDifference ==
    /\ ~panicked
    /\ \A i \in 1..Len(detection.allocations) :
        LET a == detection.allocations[i] IN a.size = a.vaddr_end - a.vaddr_start

\* C16: when parse_maps, scan_file_descriptors and check_process_environ
\* succeed, no descriptor is classified NvidiaDevice, NvidiaControl or
\* NvidiaUvm and no variable's key contains a GPU pattern, detect_allocations
\* returns Ok of the empty result (no allocation, total_gpu_memory 0),
\* whatever the regions are, and no scan has turned a region into an
\* allocation.
C16_EmptyWithoutGpuUsage ==
    (/\ scan.pc = "done"
     /\ scan.maps # None /\ scan.maps[1].ok
     /\ scan.fds # None /\ scan.fds[1].ok
     /\ scan.environ # None /\ scan.environ[1].ok
     /\ \A i \in 1..Len(scan.fd_infos) :
            \/ scan.fd_infos[i] = None
            \/ scan.fd_infos[i][1].device_type
                    \notin {"NvidiaDevice", "NvidiaControl", "NvidiaUvm"}
     /\ \A i \in 1..Len(scan.environ[1].value) :
            \A pattern \in gpu_env_patterns :
                ~contains(scan.environ[1].value[i].key, pattern))
    => /\ scan.returned # None
       /\ scan.returned[1].ok
       /\ scan.returned[1].value.allocations = <<>>
       /\ scan.returned[1].value.total_gpu_memory = 0
       /\ scan.returned[1].value = DetectionResult_new(scan.pid)
       /\ scan.uvm_allocs = <<>> /\ scan.ipc_allocs = <<>>
       /\ scan.bar_allocs = <<>>

\* The process maps /dev/nvidia-uvm and a BAR, holds only an AMD descriptor
\* and has HOME=/opt/cuda/lib64: the result is empty.
C16_Witness ==
    /\ scan.pc = "done"
    /\ scan.returned = Ok(DetectionResult_new(scan.pid))
    /\ scan.regions = <<MemoryRegion(4096, 8192, Some(target_nvidia_uvm)),
                        MemoryRegion(4096, 8192, Some(path_bar_fn0))>>
    /\ scan.fds = Ok(<<FileDescriptor(3, target_dri)>>)
    /\ scan.environ = Ok(<<EnvVar(key_HOME, value_opt_cuda)>>)

\* The allocation type that the ordered rule list of C17 gives a region, None
\* when no rule matches.
rule_list_type(region) ==
    IF region.pathname = None THEN None
    ELSE LET pathname == region.pathname[1] IN
         IF contains(pathname, str_dev_nvidia_uvm) THEN Some("Uvm")
         ELSE IF starts_with(pathname, str_dev_nvidia) THEN Some("Standard")
         ELSE IF /\ starts_with(pathname, str_anon)
                 /\ contains(pathname, str_cuda)
         THEN Some("Managed")
         ELSE IF /\ starts_with(pathname, str_dev_shm)
                 /\ contains(pathname, str_cuda) \/ contains(pathname, str_nccl)
         THEN IF contains(pathname, str_nccl) \/ contains(pathname, str_horovod)
              THEN Some("Distributed") ELSE Some("Ipc")
         ELSE IF /\ contains(pathname, str_pci_devices)
                 /\ contains(pathname, str_resource)
         THEN Some("BarMapped")
         ELSE IF /\ pathname = str_heap \/ starts_with(pathname, str_anon)
                 /\ region.end - region.start >= LARGE_ANON
         THEN Some("Unknown")
         ELSE None

\* C17: classify_region returns for every region the outcome of the first
\* matching rule of the ordered list (Uvm, Standard, Managed, Ipc or
\* Distributed, BarMapped, Unknown, no allocation): an allocation of that
\* type over the region, or none when no rule matches.
C17_RuleList ==
    (scan # <<>> /\ scan.classified # None)
    => LET region   == scan.region[1]
           expected == rule_list_type(region)
       IN  scan.classified[1] =
             IF expected = None THEN None
             ELSE Some(GpuAllocation_new(region.start, region.end, expected[1]))

\* The decimal numeral of n.
RECURSIVE to_decimal(_)
to_decimal(n) ==
    LET last == CHOOSE c \in Digits : digit_value(c) = n % 10 IN
    IF n < 10 THEN <<last>> ELSE Append(to_decimal(n \div 10), last)

\* A numeral without its leading zeros ("0" for zero).
RECURSIVE strip_zeros(_)
strip_zeros(digits) ==
    IF Len(digits) > 1 /\ digits[1] = "0" THEN strip_zeros(Tail(digits))
    ELSE digits

\* Whether the number a numeral denotes is at most U32_MAX.
fits_u32(digits) ==
    LET d   == strip_zeros(digits)
        max == to_decimal(U32_MAX)
    IN  \/ Len(d) < Len(max)
        \/ /\ Len(d) = Len(max)
           /\ \/ d = max
              \/ \E k \in 1..Len(d) :
                    /\ SubSeq(d, 1, k - 1) = SubSeq(max, 1, k - 1)
                    /\ digit_value(d[k]) < digit_value(max[k])

\* The N of a target /dev/nvidia<N>, None for any other target.
device_number(target) ==
    LET n == Len(str_dev_nvidia) IN
    IF /\ starts_with(target, str_dev_nvidia)
       /\ Len(target) > n
       /\ \A k \in (n + 1)..Len(target) : target[k] \in Digits
    THEN Some(SubSeq(target, n + 1, Len(target)))
    ELSE None

\* What C18 says of the targets other than /dev/nvidia<N>: under /dev/nvidia
\* nvidia-uvm is looked for first and nvidiactl second, and a target that
\* matches no GPU pattern has no GpuFdInfo.
unnumbered_fd_rules(fd, info) ==
    /\ (starts_with(fd.target, str_dev_nvidia)
            /\ contains(fd.target, str_nvidia_uvm))
        => info = Some(GpuFdInfo(fd, "NvidiaUvm", None))
    /\ (starts_with(fd.target, str_dev_nvidia)
            /\ ~contains(fd.target, str_nvidia_uvm)
            /\ contains(fd.target, str_nvidiactl))
        => info = Some(GpuFdInfo(fd, "NvidiaControl", None))
    /\ (/\ ~starts_with(fd.target, str_dev_nvidia)
        /\ ~starts_with(fd.target, str_dev_dri)
        /\ ~starts_with(fd.target, str_dev_kfd)
        /\ ~(starts_with(fd.target, str_dev_shm)
                /\ contains(fd.target, str_cuda)))
        => info = None

\* C18 as stated: classify_fd gives a target /dev/nvidia<N> the type
\* NvidiaDevice with device_id = N, for every decimal N.
C18_ClassifyFdEveryNumber ==
    (scan # <<>> /\ scan.fds # None /\ scan.fds[1].ok)
    => \A i \in 1..Len(scan.fd_infos) :
        LET fd   == scan.fds[1].value[i]
            info == scan.fd_infos[i]
            N    == device_number(fd.target)
        IN  /\ unnumbered_fd_rules(fd, info)
            /\ N # None
                => /\ info # None
                   /\ info[1].device_type = "NvidiaDevice"
                   /\ info[1].device_id # None
                   /\ to_decimal(info[1].device_id[1]) = strip_zeros(N[1])

\* C18: classify_fd gives a target /dev/nvidia<N> the type NvidiaDevice, with
\* device_id = N when N fits a u32 and no device ID when it does not; a
\* target under /dev/nvidia that contains nvidia-uvm is NvidiaUvm and one
\* that contains nvidiactl is NvidiaControl, both without a device ID, uvm
\* being tried before control and control before the number; a target that
\* matches no GPU pattern yields no GpuFdInfo.
C18_ClassifyFd ==
    (scan # <<>> /\ scan.fds # None /\ scan.fds[1].ok)
    => \A i \in 1..Len(scan.fd_infos) :
        LET fd   == scan.fds[1].value[i]
            info == scan.fd_infos[i]
            N    == device_number(fd.target)
        IN  /\ unnumbered_fd_rules(fd, info)
            /\ N # None
                => /\ info # None
                   /\ info[1].device_type = "NvidiaDevice"
                   /\ info[1].fd = fd.fd
                   /\ info[1].path = fd.target
                   /\ IF fits_u32(N[1])
                      THEN /\ info[1].device_id # None
                           /\ to_decimal(info[1].device_id[1]) = strip_zeros(N[1])
                      ELSE info[1].device_id = None

\* /dev/nvidia12 is device 12, /dev/nvidia99999999999 a device without an ID.
C18_Witness ==
    /\ scan # <<>>
    /\ scan.fds = Ok(<<FileDescriptor(3, target_nvidia12),
                       FileDescriptor(4, target_nvidia_huge)>>)
    /\ scan.fd_infos =
        <<Some(GpuFdInfo(FileDescriptor(3, target_nvidia12),
                         "NvidiaDevice", Some(12))),
          Some(GpuFdInfo(FileDescriptor(4, target_nvidia_huge),
                         "NvidiaDevice", None))>>

\* Byte k of v, byte 0 being the least significant.
RECURSIVE byte_of(_, _)
byte_of(v, k) == IF k = 0 THEN v % 256 ELSE byte_of(v \div 256, k - 1)

\* The n bytes of the file from position at (counted from 0) are the
\* little-endian bytes of v.
little_endian_at(bytes, at, n, v) ==
    \A k \in 0..(n - 1) : bytes[at + k + 1] = byte_of(v, k)

\* C19: write_header emits exactly 32 bytes, magic, version, pid and
\* num_allocations as little-endian u32 and then total_size and timestamp as
\* little-endian u64, and read_header on them returns the same six values;
\* write_allocation_header emits exactly 32 bytes that
\* read_allocation_header decodes to the same vaddr_start, vaddr_end, size,
\* device_id and flags.
C19_HeaderCodecRoundTrip ==
    /\ (codec # <<>> /\ codec.pc \in {"read_header", "read_allocation_header"})
        => Len(codec.file) = 32
    /\ (codec # <<>> /\ codec.pc = "read_header")
        => /\ little_endian_at(codec.file, 0, 4, codec.header.magic)
           /\ little_endian_at(codec.file, 4, 4, codec.header.version)
           /\ little_endian_at(codec.file, 8, 4, codec.header.pid)
           /\ little_endian_at(codec.file, 12, 4, codec.header.num_allocations)
           /\ little_endian_at(codec.file, 16, 8, codec.header.total_size)
           /\ little_endian_at(codec.file, 24, 8, codec.header.timestamp)
    /\ (codec # <<>> /\ codec.pc = "done") => codec.read = Ok(codec.header)

\* A header whose six fields differ pairwise has been written and read back.
C19_Witness ==
    /\ codec # <<>>
    /\ codec.pc = "done"
    /\ codec.header = [magic |-> CHECKPOINT_MAGIC, version |-> 1,
                       pid |-> 258, num_allocations |-> U32_MAX,
                       total_size |-> 16777217, timestamp |-> U64_MAX]
    /\ codec.read = Ok(codec.header)
    /\ Len(codec.file) = 32

\* The checkpoint succeeded and wrote every entry's payload in full, and the
\* restore reads that file with /proc/<target>/mem present.
complete_file_restored ==
    /\ ck_result # None /\ ck_result[1].ok
    /\ \A i \in 1..Len(ck_entries) :
            ck_entries[i].payload = detection.allocations[i].size
    /\ pc \in {"rs_loop", "rs_write", "rs_skip", "rs_done"}
    /\ dst_mem \in {"denied", "writable"}

\* C20: when restoring an entry to the target's memory fails (the open of
\* /proc/<target>/mem is denied, or a write of some window fails), restore
\* discards exactly the entry's payload bytes that it has not consumed yet:
\* every allocation header is read at the offset where the writer put it,
\* and restore ends with Ok, every entry's size credited.
C20_FallbackSkipsTheRest ==
    complete_file_restored
    => /\ \A i \in 1..Len(rs_entries) :
            /\ rs_entries[i].at = ck_entries[i].at
            /\ rs_entries[i].header = AllocationHeader(detection.allocations[i])
       /\ (pc = "rs_skip" /\ rs.remaining = 0)
            => rs.pos = rs_entries[Len(rs_entries)].at + 32 + rs.size
       /\ (rs_result # None /\ validate_header(read_header(input)) = Ok(<<>>))
            => /\ rs_result[1].ok
               /\ rs_result[1].value.total_size =
                    sum_of_sizes(detection.allocations)

\* The sum of the sizes of the allocation headers the restore has read.
RECURSIVE header_sizes(_)
header_sizes(entries) ==
    IF entries = <<>> THEN 0
    ELSE entries[1].header.size + header_sizes(Tail(entries))

\* C21: when the checkpoint file ends before an entry's full payload has
\* been read, the restore ends that entry without an error, nothing more
\* being read or written, and is back in the loop over the entries; there it
\* returns Ok when the entry was the last one and otherwise goes on to read
\* the next allocation header (which, the file being at its end, fails).
C21_ShortReadEndsEntry ==
    /\ [][(pc \in {"rs_write", "rs_skip"} /\ rs.remaining > 0
                /\ rs.pos = Len(input))
          => (/\ pc' = "rs_loop"
              /\ rs_result' = None
              /\ rs'.idx = rs.idx + 1
              /\ rs'.pos = rs.pos
              /\ target_writes' = target_writes)]_vars
    /\ [][(pc = "rs_loop" /\ rs.pos = Len(input))
          => (IF rs.idx = rs.num_allocations
              THEN rs_result' # None /\ rs_result'[1].ok
              ELSE rs_result' = Err("IoError"))]_vars

\* The restore has returned Ok although it consumed fewer payload bytes than
\* the headers it read announce: the last entry ended at the end of the file.
C21_Witness ==
    /\ pc = "rs_done"
    /\ rs_result # None /\ rs_result[1].ok
    /\ dst_mem = "absent"
    /\ rs_entries # <<>>
    /\ rs.consumed < header_sizes(rs_entries)

\* C22: the restore writes to the target's memory in file order.  Every
\* write appends to what was written before; the byte at file position p
\* of the payload of the entry being restored, the k-th of that payload
\* (k from 0), goes to address vaddr_start + k; and the read position in the
\* file and the number of entries begun never decrease, so no byte of an
\* earlier file position is written after one of a later position.
C22_WritesInFileOrder ==
    /\ [][(target_writes' # target_writes)
          => (LET before == Len(target_writes)
                  e      == rs_entries[Len(rs_entries)]
              IN  /\ pc = "rs_write"
                  /\ rs_entries' = rs_entries
                  /\ Len(target_writes') > before
                  /\ SubSeq(target_writes', 1, before) = target_writes
                  /\ rs'.pos >= rs.pos + (Len(target_writes') - before)
                  /\ \A i \in 1..(Len(target_writes') - before) :
                        LET k == (rs.pos + i - 1) - (e.at + 32) IN
                        /\ k >= 0
                        /\ target_writes'[before + i] =
                                <<e.header.vaddr_start + k, input[rs.pos + i]>>)]_vars
    /\ [][(pc \in {"rs_loop", "rs_write", "rs_skip"})
          => (/\ rs'.pos >= rs.pos
              /\ Len(rs_entries') >= Len(rs_entries)
              /\ SubSeq(rs_entries', 1, Len(rs_entries)) = rs_entries)]_vars

\* Two entries of two bytes each have been written to the target.
C22_Witness ==
    /\ pc = "rs_done"
    /\ Len(rs_entries) = 2
    /\ rs.progress = 4
    /\ target_writes = <<<<16, input[65]>>, <<17, input[66]>>,
                         <<32, input[99]>>, <<33, input[100]>>>>

\* C23: in checkpoint and in restore the progress counter only grows, each
\* increment being the byte count of one chunk (the bytes the step appended
\* to the checkpoint file, or consumed from it); between chunks the counter
\* equals the number of payload bytes moved so far: written to the
\* checkpoint file on checkpoint, consumed from it on restore.
C23_ProgressIsBytesMoved ==
    /\ [](/\ ck.progress = payload_written(ck_entries)
          /\ rs.progress = rs.consumed)
    /\ [][/\ ck'.progress >= ck.progress
          /\ (pc \in {"ck_copy", "ck_zero"})
                => (ck'.progress - ck.progress = Len(file') - Len(file))
          /\ (pc \in {"rs_write", "rs_skip"})
                => (/\ rs'.progress >= rs.progress
                    /\ rs'.progress - rs.progress = rs'.pos - rs.pos)]_vars

\* Whether a pathname matches a rule of the NVIDIA scans, a rule being named
\* after the allocation type it gives.
rule_matches(rule, pathname) ==
    CASE rule = "Uvm" -> contains(pathname, str_dev_nvidia_uvm)
      [] rule = "Managed" ->
            starts_with(pathname, str_anon) /\ contains(pathname, str_cuda)
      [] rule = "Ipc" ->
            /\ starts_with(pathname, str_dev_shm)
            /\ contains(pathname, str_cuda) \/ contains(pathname, str_nccl)
      [] rule = "BarMapped" ->
            /\ contains(pathname, str_pci_devices)
            /\ contains(pathname, str_fn0_resource)

\* One allocation for every rule of the sequence that the region matches.
RECURSIVE allocations_of_region(_, _)
allocations_of_region(region, rules) ==
    IF rules = <<>> \/ region.pathname = None THEN <<>>
    ELSE (IF rule_matches(rules[1], region.pathname[1])
          THEN <<GpuAllocation_new(
                    region.start, region.end,
                    IF /\ rules[1] = "Ipc"
                       /\ \/ contains(region.pathname[1], str_nccl)
                          \/ contains(region.pathname[1], str_horovod)
                    THEN "Distributed" ELSE rules[1])>>
          ELSE <<>>)
         \o allocations_of_region(region, Tail(rules))

\* The (region, matching rule) pairs of one scan, in memory-map order.
RECURSIVE allocations_of_scan(_, _)
allocations_of_scan(regions, rules) ==
    IF regions = <<>> THEN <<>>
    ELSE allocations_of_region(regions[1], rules)
         \o allocations_of_scan(Tail(regions), rules)

\* detect_allocations has gone past the gate: an NVIDIA descriptor was found
\* or a variable's key contains a GPU pattern.
past_the_gate ==
    /\ scan # <<>>
    /\ scan.fds # None /\ scan.fds[1].ok
    /\ \/ scan.gpu_fds # <<>>
       \/ /\ scan.environ # None /\ scan.environ[1].ok
          /\ \E i \in 1..Len(scan.environ[1].value) :
                \E pattern \in gpu_env_patterns :
                    contains(scan.environ[1].value[i].key, pattern)

\* C24: past the gate, the allocations of the result that detect_allocations
\* returns are the output of the UVM scan, then of the IPC scan, then of the
\* BAR scan, each in memory-map order with one allocation per (region,
\* matching rule) pair, so that a region matching two rules appears twice;
\* total_gpu_memory is the sum of the sizes, a twice-matched region counted
\* twice.
C24_ScanOrder ==
    (past_the_gate /\ scan.pc = "done")
    => LET expected ==
                allocations_of_scan(scan.regions, <<"Uvm", "Managed">>)
                \o allocations_of_scan(scan.regions, <<"Ipc">>)
                \o allocations_of_scan(scan.regions, <<"BarMapped">>)
       IN  /\ scan.returned # None /\ scan.returned[1].ok
           /\ scan.returned[1].value.allocations = expected
           /\ scan.returned[1].value.total_gpu_memory = sum_of_sizes(expected)

\* The maps list a BAR and then a region that matches both UVM rules: the
\* result holds that region twice, before the BAR, and counts three pages.
C24_Witness ==
    /\ past_the_gate /\ scan.pc = "done"
    /\ scan.regions = <<MemoryRegion(4096, 8192, Some(path_bar_fn0)),
                        MemoryRegion(4096, 8192, Some(path_anon_cuda_uvm))>>
    /\ scan.returned # None /\ scan.returned[1].ok
    /\ scan.returned[1].value.allocations =
            <<GpuAllocation_new(4096, 8192, "Uvm"),
              GpuAllocation_new(4096, 8192, "Managed"),
              GpuAllocation_new(4096, 8192, "BarMapped")>>
    /\ scan.returned[1].value.total_gpu_memory = 12288

\* C25: when the only keys of the environment that contain a GPU pattern
\* are exactly LD_LIBRARY_PATH, has_gpu_environment returns true only if
\* the value of such a variable contains cuda, nvidia or rocm.
C25_LdLibraryPathNeedsGpuValue ==
    (/\ scan # <<>>
     /\ scan.environ # None /\ scan.environ[1].ok
     /\ \E i \in 1..Len(scan.environ[1].value) :
            scan.environ[1].value[i].key = str_LD_LIBRARY_PATH
     /\ \A i \in 1..Len(scan.environ[1].value) :
            (\E pattern \in gpu_env_patterns :
                contains(scan.environ[1].value[i].key, pattern))
            => scan.environ[1].value[i].key = str_LD_LIBRARY_PATH
     /\ scan.gpu_env = Some(TRUE))
    => \E i \in 1..Len(scan.environ[1].value) :
        /\ scan.environ[1].value[i].key = str_LD_LIBRARY_PATH
        /\ \/ contains(scan.environ[1].value[i].value, str_cuda)
           \/ contains(scan.environ[1].value[i].value, str_nvidia)
           \/ contains(scan.environ[1].value[i].value, str_rocm)

\* A non-empty string of hexadecimal digits.
is_hex(s) ==
    /\ s # <<>>
    /\ \A i \in 1..Len(s) : to_digit(s[i]) < 16

\* A line of at least five whitespace-separated fields, the first a range
\* <hex>-<hex>, the third a hex offset and the fifth a decimal inode.
well_formed(line) ==
    LET parts == split_whitespace(line) IN
    /\ Len(parts) >= 5
    /\ LET addr_parts == split_any(parts[1], {"-"}) IN
        /\ Len(addr_parts) = 2
        /\ is_hex(addr_parts[1])
        /\ is_hex(addr_parts[2])
    /\ is_hex(parts[3])
    /\ parts[5] # <<>>
    /\ \A i \in 1..Len(parts[5]) : parts[5][i] \in Digits

\* C26: a region that parse_line produces has end > start; parse_line
\* produces a region only for a well-formed line and returns nothing for
\* any other line.
C26_RegionsAreWellFormed ==
    (scan # <<>> /\ scan.parsed # None)
    => /\ scan.parsed[1] # None
            => /\ scan.parsed[1][1].end > scan.parsed[1][1].start
               /\ well_formed(scan.line)
       /\ ~well_formed(scan.line) => scan.parsed[1] = None

\* C27: checkpoint_process terminates for every window size, 0 included,
\* and every allocation size, copying or zero-filling: it returns, and an
\* iteration of the copy loop or of the zero-fill loop that is about to run
\* either moves at least one byte (decreasing the remaining count) or
\* leaves the loop.
C27_CheckpointTerminates ==
    /\ <>(ck_result # None)
    /\ [](pc = "ck_zero" /\ ck.remaining > 0
            => Min(ck.remaining, window_size) > 0)
    /\ [][(pc \in {"ck_copy", "ck_zero"})
            => (ck'.remaining < ck.remaining \/ pc' # pc)]_vars

\* C28: while it restores an entry, the restore writes to the target's
\* memory only at addresses of [vaddr_start, vaddr_start + size) of the
\* allocation header it read for the entry, and at most size bytes for the
\* entry: the bytes written for it so far are size - remaining, and no
\* window goes past the end of the range.
C28_WritesStayInRange ==
    /\ [](pc = "rs_write"
            => /\ rs.remaining <= rs.size
               /\ rs.mem_pos = rs.vaddr_start + (rs.size - rs.remaining))
    /\ [][(target_writes' # target_writes)
          => (LET before == Len(target_writes)
                  h      == rs_entries[Len(rs_entries)].header
              IN  /\ pc = "rs_write"
                  /\ (rs.size - rs.remaining)
                        + (Len(target_writes') - before) <= h.size
                  /\ \A i \in (before + 1)..Len(target_writes') :
                        /\ target_writes'[i][1] >= h.vaddr_start
                        /\ target_writes'[i][1] < h.vaddr_start + h.size)]_vars

\* The first entry, of two bytes, has been written up to the last address
\* of its range and the restore is back in the loop over the entries.
C28_Witness ==
    /\ pc = "rs_loop"
    /\ rs.idx = 1
    /\ rs.size = 2
    /\ Len(target_writes) = 2
    /\ target_writes[2][1] = rs.vaddr_start + rs.size - 1

\* C29: every allocation of a result that NvidiaDetector::detect_allocations
\* returns is Uvm, Managed, Ipc, Distributed or BarMapped; and when
\* select_strategy answers CudaCheckpoint for such a result, the result is
\* not empty and all its allocations are BarMapped.
C29_ScanTypesAndStrategy ==
    (scan # <<>> /\ scan.returned # None /\ scan.returned[1].ok)
    => LET allocations == scan.returned[1].value.allocations IN
       /\ \A i \in 1..Len(allocations) :
            allocations[i].alloc_type
                \in {"Uvm", "Managed", "Ipc", "Distributed", "BarMapped"}
       /\ strategy = Some("CudaCheckpoint")
            => /\ allocations # <<>>
               /\ \A i \in 1..Len(allocations) :
                    allocations[i].alloc_type = "BarMapped"

\* A scan that found two BAR mappings and nothing else, for which
\* select_strategy answered CudaCheckpoint.
C29_Witness ==
    /\ scan # <<>> /\ scan.returned # None /\ scan.returned[1].ok
    /\ strategy = Some("CudaCheckpoint")
    /\ Len(scan.returned[1].value.allocations) = 2
    /\ scan.returned[1].value.allocations[2].alloc_type = "BarMapped"

\* C30: CheckpointEngine::checkpoint, configured with the strategy that
\* select_strategy returns for the detection, completes with a result
\* value and never panics in an unimplemented branch; with SkipGpu the
\* result is Ok with size_bytes 0 and no checkpoint file exists; with
\* BarSliding an Ok result carries the size_bytes that checkpoint_process
\* returned.
C30_EngineCompletes ==
    (engine # <<>> /\ engine.pc = "done")
    => /\ ~panicked
       /\ engine.result # None
       /\ strategy = Some("SkipGpu")
            => /\ engine.result[1].ok
               /\ engine.result[1].value.size_bytes = 0
               /\ ~file_exists
       /\ (strategy = Some("BarSliding") /\ engine.result[1].ok)
            => /\ ck_result # None /\ ck_result[1].ok
               /\ engine.result[1].value.size_bytes
                    = ck_result[1].value.size_bytes
====
